---- MODULE Spec2Model ----
(***************************************************************************)
(* State-machine model of the SINGULARITY-DELTA core: the reality graph,   *)
(* the axiom registry, the failure-inevitability calculator, the           *)
(* counterfactual simulator and the existence judge.                       *)
(*                                                                         *)
(* Conventions                                                             *)
(*  - Python floats are exact rationals [n, d] (d = 0 is float('inf')).    *)
(*    Rounding of IEEE doubles is not modelled.                            *)
(*  - criticality values are integers in hundredths (80 is 0.8).           *)
(*  - A Python dict is a sequence of keys (insertion order) and a map.     *)
(*  - A Python set of edge ids has no defined iteration order: every       *)
(*    operator that iterates a bucket takes the order as a parameter.      *)
(*  - Node objects live in a heap (objs); a graph holds references, so     *)
(*    that sharing between a graph and its clone can be expressed.         *)
(*  - A name is a sequence of one-character strings; a text (f-string) is   *)
(*    the sequence of its pieces, a number being printed by ToString.       *)
(*  - An Optional result is a sequence of length 0 or 1.                    *)
(***************************************************************************)
EXTENDS Integers, Sequences, FiniteSets, TLC

VARIABLES
    objs,        \* heap: address -> Node object
    base,        \* CounterfactualSimulator.base_graph (the RealityGraph)
    context,     \* the context map handed to verify_all
    scenarios,   \* CounterfactualSimulator.scenarios
    sim,         \* run_simulation: position in the loop, clones made so far
    violations,  \* the violation list handed to FIICalculator and the Judge
    fii,         \* the FII handed to the Judge
    cf_results,  \* the counterfactual results handed to the Judge
    paths,       \* FIICalculator.collapse_paths
    verdict,     \* the ExistenceVerdict rendered last
    op,          \* the operation performed last, with its arguments and outcome
    calls,       \* number of add_node and add_edge calls made so far
    analysis     \* the AnalysisResult the Engine fills in

vars == <<objs, base, context, scenarios, sim, violations, fii, cf_results, paths, verdict, op, calls,
          analysis>>

----------------------------------------------------------------------------
(* Sequences and sets *)

Range(s) == {s[i] : i \in 1..Len(s)}

Perms(S) == {s \in [1..Cardinality(S) -> S] : Range(s) = S}

RECURSIVE SeqRemove(_, _)
SeqRemove(s, x) ==
    IF s = <<>> THEN <<>>
    ELSE IF Head(s) = x THEN SeqRemove(Tail(s), x)
    ELSE <<Head(s)>> \o SeqRemove(Tail(s), x)

Prefix(s, k) == SubSeq(s, 1, IF Len(s) < k THEN Len(s) ELSE k)

IndexOf(s, x) == CHOOSE i \in 1..Len(s) : s[i] = x /\ \A j \in 1..(i-1) : s[j] # x

Restrict(f, S) == [x \in S |-> f[x]]

----------------------------------------------------------------------------
(* Exact rational arithmetic standing for Python floats *)

Abs(x) == IF x < 0 THEN -x ELSE x

RECURSIVE GCD(_, _)
GCD(a, b) == IF b = 0 THEN a ELSE GCD(b, a % b)

Norm(n, d) ==
    LET g == GCD(Abs(n), d)
    IN  IF g = 0 THEN [n |-> 0, d |-> 1] ELSE [n |-> n \div g, d |-> d \div g]

R(n, d) == Norm(n, d)
Pct(p) == Norm(p, 100)
Zero == [n |-> 0, d |-> 1]
One == [n |-> 1, d |-> 1]
Inf == [n |-> 1, d |-> 0]

\* operands are put over the least common denominator first, and products are
\* cancelled crosswise, so that intermediate values stay small
DenGCD(a, b) == IF GCD(a.d, b.d) = 0 THEN 1 ELSE GCD(a.d, b.d)
RAdd(a, b) ==
    LET g == DenGCD(a, b)
    IN  Norm(a.n * (b.d \div g) + b.n * (a.d \div g), (a.d \div g) * b.d)
RSub(a, b) ==
    LET g == DenGCD(a, b)
    IN  Norm(a.n * (b.d \div g) - b.n * (a.d \div g), (a.d \div g) * b.d)
RMul(a, b) ==
    LET g1 == IF GCD(Abs(a.n), b.d) = 0 THEN 1 ELSE GCD(Abs(a.n), b.d)
        g2 == IF GCD(Abs(b.n), a.d) = 0 THEN 1 ELSE GCD(Abs(b.n), a.d)
    IN  Norm((a.n \div g1) * (b.n \div g2), (a.d \div g2) * (b.d \div g1))
RDiv(a, b) == RMul(a, [n |-> b.d, d |-> b.n])
RLt(a, b) == LET g == DenGCD(a, b) IN a.n * (b.d \div g) < b.n * (a.d \div g)
RLe(a, b) == LET g == DenGCD(a, b) IN a.n * (b.d \div g) <= b.n * (a.d \div g)
RGt(a, b) == RLt(b, a)
RGe(a, b) == RLe(b, a)
RMin(a, b) == IF RLt(b, a) THEN b ELSE a
RMax(a, b) == IF RGt(b, a) THEN b ELSE a

RECURSIVE RSum(_)
RSum(s) == IF s = <<>> THEN Zero ELSE RAdd(Head(s), RSum(Tail(s)))

RECURSIVE RMaxSeq(_)
RMaxSeq(s) == IF Len(s) = 1 THEN s[1] ELSE RMax(s[1], RMaxSeq(Tail(s)))

----------------------------------------------------------------------------
(* str.lower() and the substring test `needle in name.lower()` *)

Lower(c) ==
    CASE c = "A" -> "a" [] c = "C" -> "c" [] c = "E" -> "e" [] c = "H" -> "h"
      [] c = "M" -> "m" [] c = "S" -> "s" [] c = "D" -> "d" [] c = "B" -> "b"
      [] c = "R" -> "r" [] OTHER -> c

LowerName(name) == [i \in 1..Len(name) |-> Lower(name[i])]

Contains(name, needle) ==
    \E i \in 0..(Len(name) - Len(needle)) :
        \A j \in 1..Len(needle) : LowerName(name)[i + j] = needle[j]

kw_cpu == <<"c", "p", "u">>
kw_memory == <<"m", "e", "m", "o", "r", "y">>
kw_human == <<"h", "u", "m", "a", "n">>
kw_engineer == <<"e", "n", "g", "i", "n", "e", "e", "r">>
kw_high == <<"h", "i", "g", "h">>
kw_availab == <<"a", "v", "a", "i", "l", "a", "b">>
kw_single == <<"s", "i", "n", "g", "l", "e">>
kw_stateless == <<"s", "t", "a", "t", "e", "l", "e", "s", "s">>
kw_state == <<"s", "t", "a", "t", "e">>

----------------------------------------------------------------------------
(* dict.get(key, default) on a metadata map *)

Get(md, key, default) == IF key \in DOMAIN md THEN md[key] ELSE default

NoMeta == [k \in {} |-> 0]

MetaSet(md, key, val) == [k \in (DOMAIN md) \cup {key} |-> IF k = key THEN val ELSE md[k]]

----------------------------------------------------------------------------
(* RealityGraph *)

EmptyGraph ==
    [nodeKeys |-> <<>>, nodes |-> [k \in {} |-> 0],
     edgeKeys |-> <<>>, edges |-> [k \in {} |-> 0],
     adj |-> [k \in {} |-> {}], radj |-> [k \in {} |-> {}]]

\* self.d[key] = val on a dict held as (keys, map)
DictKeys(keys, map, key) == IF key \in DOMAIN map THEN keys ELSE Append(keys, key)
DictSet(map, key, val) == [k \in (DOMAIN map) \cup {key} |-> IF k = key THEN val ELSE map[k]]
DictDel(map, key) == [k \in (DOMAIN map) \ {key} |-> map[k]]


\* RealityGraph.add_node: `ref` is the address of the Node object, `id` its id
add_node(g, id, ref) ==
    [g EXCEPT
        !.nodeKeys = DictKeys(g.nodeKeys, g.nodes, id),
        !.nodes = DictSet(g.nodes, id, ref),
        !.adj = IF id \in DOMAIN g.adj THEN g.adj ELSE DictSet(g.adj, id, {}),
        !.radj = IF id \in DOMAIN g.radj THEN g.radj ELSE DictSet(g.radj, id, {})]

\* an add_edge that stores the edge and indexes its source before it looks at the target
add_edge_target_checked_late(g, e) ==
    IF e.source \notin DOMAIN g.nodes THEN [g |-> g, raised |-> "ValueError"]
    ELSE LET g1 == [g EXCEPT !.edgeKeys = DictKeys(g.edgeKeys, g.edges, e.id),
                             !.edges = DictSet(g.edges, e.id, e),
                             !.adj = [g.adj EXCEPT ![e.source] = @ \cup {e.id}]]
         IN  IF e.target \notin DOMAIN g.nodes THEN [g |-> g1, raised |-> "ValueError"]
             ELSE [g |-> [g1 EXCEPT !.radj = [g.radj EXCEPT ![e.target] = @ \cup {e.id}]],
                   raised |-> "none"]

\* RealityGraph.add_edge: returns the graph after the call and the exception raised
add_edge(g, e) ==
    IF e.source \notin DOMAIN g.nodes THEN [g |-> g, raised |-> "ValueError"]
    ELSE IF e.target \notin DOMAIN g.nodes THEN [g |-> g, raised |-> "ValueError"]
    ELSE [g |-> [g EXCEPT
                    !.edgeKeys = DictKeys(g.edgeKeys, g.edges, e.id),
                    !.edges = DictSet(g.edges, e.id, e),
                    !.adj = [g.adj EXCEPT ![e.source] = @ \cup {e.id}],
                    !.radj = [g.radj EXCEPT ![e.target] = @ \cup {e.id}]],
          raised |-> "none"]

\* The graph as the read-only algorithms see it: node ids mapped to the Node objects
View(h, g) == [g EXCEPT !.nodes = [id \in DOMAIN g.nodes |-> h[g.nodes[id]]]]

\* The iteration orders the buckets of a graph can have
RECURSIVE OrdersOver(_, _)
OrdersOver(buckets, keys) ==
    IF keys = {} THEN {<<>>}
    ELSE LET n == CHOOSE k \in keys : TRUE
         IN  {(n :> p) @@ f : p \in Perms(buckets[n]), f \in OrdersOver(buckets, keys \ {n})}

BucketOrders(buckets) == OrdersOver(buckets, DOMAIN buckets)

Orders(g) == {[fwd |-> f, rev |-> r] : f \in BucketOrders(g.adj), r \in BucketOrders(g.radj)}

\* RealityGraph.get_node, for an id the caller goes on to dereference
get_node(v, id) == v.nodes[id]

\* RealityGraph.get_outgoing_edges / get_incoming_edges, iterating the bucket in order ord
get_outgoing_edges(v, ord, id) ==
    IF id \in DOMAIN v.adj THEN [i \in 1..Len(ord.fwd[id]) |-> v.edges[ord.fwd[id][i]]] ELSE <<>>

get_incoming_edges(v, ord, id) ==
    IF id \in DOMAIN v.radj THEN [i \in 1..Len(ord.rev[id]) |-> v.edges[ord.rev[id][i]]] ELSE <<>>

\* list(self.nodes.values()) and list(self.edges.values())
NodeList(v) == [i \in 1..Len(v.nodeKeys) |-> v.nodes[v.nodeKeys[i]]]
EdgeList(v) == [i \in 1..Len(v.edgeKeys) |-> v.edges[v.edgeKeys[i]]]

IsType(n, t) == n.type = t

\* RealityGraph.get_nodes_by_type
get_nodes_by_type(v, t) == SelectSeq(NodeList(v), LAMBDA n : n.type = t)

get_behavior_nodes(v) == get_nodes_by_type(v, "behavior")
get_decision_nodes(v) == get_nodes_by_type(v, "decision")

\* RealityGraph.get_critical_nodes(threshold)
get_critical_nodes(v, threshold) == SelectSeq(NodeList(v), LAMBDA n : n.criticality >= threshold)

DefaultThreshold == 70

\* RealityGraph.get_stats
get_stats(v) ==
    [total_nodes |-> Cardinality(DOMAIN v.nodes),
     total_edges |-> Cardinality(DOMAIN v.edges),
     decisions |-> Len(get_decision_nodes(v)),
     behaviors |-> Len(get_behavior_nodes(v)),
     assumptions |-> Len(get_nodes_by_type(v, "assumption")),
     constraints |-> Len(get_nodes_by_type(v, "constraint")),
     critical_nodes |-> Len(get_critical_nodes(v, DefaultThreshold))]

\* RealityGraph.has_decision_ancestry: the while loop over the stack
RECURSIVE AncestryLoop(_, _, _, _)
AncestryLoop(v, ord, stack, visited) ==
    IF stack = <<>> THEN FALSE
    ELSE LET current_id == stack[Len(stack)]
             rest == SubSeq(stack, 1, Len(stack) - 1)
         IN  IF current_id \in visited THEN AncestryLoop(v, ord, rest, visited)
             ELSE IF v.nodes[current_id].type = "decision" THEN TRUE
             ELSE LET inc == get_incoming_edges(v, ord, current_id)
                      pushed == [i \in 1..Len(inc) |-> inc[i].source]
                  IN  AncestryLoop(v, ord, rest \o pushed, visited \cup {current_id})

\* a search that starts at the sources of the incoming edges
has_decision_ancestry_from_parents(v, ord, node) ==
    LET inc == get_incoming_edges(v, ord, node.id)
    IN  AncestryLoop(v, ord, [i \in 1..Len(inc) |-> inc[i].source], {})

has_decision_ancestry(v, ord, node) == AncestryLoop(v, ord, <<node.id>>, {})


----------------------------------------------------------------------------
(* Texts *)

RECURSIVE Concat(_)
Concat(ss) == IF ss = <<>> THEN <<>> ELSE Head(ss) \o Concat(Tail(ss))

\* str(x) of a number
Num(x) == IF x.d = 1 THEN <<ToString(x.n)>> ELSE <<ToString(x.n), "/", ToString(x.d)>>

\* round(x * 10^k), by long division: the digits a format of k decimals keeps
RECURSIVE LongDiv(_, _, _, _)
LongDiv(q, r, d, k) ==
    IF k = 0 THEN [q |-> q, r |-> r]
    ELSE LongDiv(q * 10 + ((r * 10) \div d), (r * 10) % d, d, k - 1)

Scaled(x, k) ==
    LET qr == LongDiv(x.n \div x.d, x.n % x.d, x.d, k)
    IN  IF 2 * qr.r > x.d \/ (2 * qr.r = x.d /\ qr.q % 2 = 1) THEN qr.q + 1 ELSE qr.q

\* f"{x:.2%}", f"{x:.2f}" and f"{x:.4f}"
FmtPct2(x) == <<ToString(Scaled(x, 4)), "e-2%">>
FmtF2(x) == <<ToString(Scaled(x, 2)), "e-2">>
FmtF4(x) == <<ToString(Scaled(x, 4)), "e-4">>

----------------------------------------------------------------------------
(* RealityGraph.find_contradictions *)

DefaultContradictsSeverity == Pct(90)

explicit_contradiction(v, edge) ==
    LET source == v.nodes[edge.source]
        target == v.nodes[edge.target]
    IN  [node_a |-> source.id, node_b |-> target.id,
         name_a |-> source.name, name_b |-> target.name,
         explanation |-> Get(edge.metadata, "reason", <<"Explicit contradiction">>),
         severity |-> Get(edge.metadata, "severity", DefaultContradictsSeverity),
         causal_chain |-> <<source.name, <<"contradicts">>, target.name>>]

find_explicit_contradictions(v) ==
    LET es == SelectSeq(EdgeList(v), LAMBDA e : e.type = "contradicts")
    IN  [i \in 1..Len(es) |-> explicit_contradiction(v, es[i])]

DefaultCapacityGraph == One
DefaultDemand == One
OversubscribedSeverity == Pct(85)

\* the body of the loop of _find_resource_contradictions for one Resource node
resource_contradiction(v, ord, resource) ==
    LET inc == SelectSeq(get_incoming_edges(v, ord, resource.id), LAMBDA e : e.type = "requires")
        consumers == [i \in 1..Len(inc) |-> v.nodes[inc[i].source]]
        capacity == Get(resource.metadata, "capacity", DefaultCapacityGraph)
        total_demand == RSum([i \in 1..Len(consumers) |->
                                Get(consumers[i].metadata, "resource_demand", DefaultDemand)])
    IN  IF Len(consumers) > 1 /\ RGt(total_demand, capacity)
        THEN <<[node_a |-> consumers[1].id, node_b |-> consumers[2].id,
                name_a |-> consumers[1].name, name_b |-> consumers[2].name,
                explanation |-> <<"Resource '">> \o resource.name \o <<"' oversubscribed: ">>
                                \o Num(total_demand) \o <<" > ">> \o Num(capacity),
                severity |-> OversubscribedSeverity,
                causal_chain |-> <<consumers[1].name, <<"requires ">> \o resource.name,
                                   consumers[2].name, <<"resource_exhausted">> >>]>>
        ELSE <<>>

find_resource_contradictions(v, ord) ==
    LET rs == get_nodes_by_type(v, "resource")
    IN  Concat([i \in 1..Len(rs) |-> resource_contradiction(v, ord, rs[i])])

HASeverity == Pct(95)
StatelessSeverity == Pct(70)

find_logical_contradictions(v) ==
    LET decisions == get_decision_nodes(v)
        ha_decisions == SelectSeq(decisions, LAMBDA d : Contains(d.name, kw_high) /\ Contains(d.name, kw_availab))
        single_points == SelectSeq(decisions, LAMBDA d : Contains(d.name, kw_single))
        stateless == SelectSeq(decisions, LAMBDA d : Contains(d.name, kw_stateless))
        stateful == SelectSeq(decisions, LAMBDA d : Contains(d.name, kw_state) /\ ~Contains(d.name, kw_stateless))
        ha(a, b) == [node_a |-> a.id, node_b |-> b.id, name_a |-> a.name, name_b |-> b.name,
                     explanation |-> <<"High availability cannot coexist with single point of failure">>,
                     severity |-> HASeverity,
                     causal_chain |-> <<a.name, <<"requires_redundancy">>, b.name, <<"lacks_redundancy">> >>]
        st(a, b) == [node_a |-> a.id, node_b |-> b.id, name_a |-> a.name, name_b |-> b.name,
                     explanation |-> <<"Stateless architecture contradicts stateful component">>,
                     severity |-> StatelessSeverity,
                     causal_chain |-> <<a.name, <<"requires_no_state">>, b.name, <<"maintains_state">> >>]
    IN  Concat([i \in 1..Len(ha_decisions) |->
                   [j \in 1..Len(single_points) |-> ha(ha_decisions[i], single_points[j])]])
        \o Concat([i \in 1..Len(stateless) |->
                   [j \in 1..Len(stateful) |-> st(stateless[i], stateful[j])]])

find_contradictions(v, ord) ==
    find_explicit_contradictions(v) \o find_resource_contradictions(v, ord)
        \o find_logical_contradictions(v)

\* Contradiction.to_dict
contradiction_to_dict(c) ==
    [node_a |-> c.name_a, node_b |-> c.name_b, explanation |-> c.explanation,
     severity |-> c.severity, causal_chain |-> c.causal_chain]


----------------------------------------------------------------------------
(* Axioms *)

FatalSeverity == Pct(95)

\* a violation that is fatal only above the bound
is_fatal_above(violation) == RGt(violation.severity, FatalSeverity)

\* AxiomViolation.is_fatal
is_fatal(violation) == RGe(violation.severity, FatalSeverity)

ExistenceSeverity == Pct(80)

\* an Existence axiom that looks at the parents of a behavior only
ExistenceAxiom_verify_parents_only(v, ctx, ord) ==
    LET parented(n) == \E i \in 1..Len(get_incoming_edges(v, ord, n.id)) :
                          get_node(v, get_incoming_edges(v, ord, n.id)[i].source).type = "decision"
        bs == SelectSeq(get_behavior_nodes(v), LAMBDA n : ~parented(n))
        orphaned_behaviors == [i \in 1..Len(bs) |-> bs[i].id]
    IN  IF orphaned_behaviors # <<>>
        THEN <<[axiom_name |-> "EXISTENCE_AXIOM",
                violation_type |-> "unexplained_behavior",
                severity |-> ExistenceSeverity,
                evidence |-> [orphaned_behaviors |-> orphaned_behaviors],
                causal_chain |-> << <<"undefined_origin">>, <<"behavior_without_decision">> >>,
                explanation |-> <<"Found ", ToString(Len(orphaned_behaviors)),
                                  " behaviors with no decision origin">>]>>
        ELSE <<>>

\* ExistenceAxiom.verify
ExistenceAxiom_verify(v, ctx, ord) ==
    LET bs == SelectSeq(get_behavior_nodes(v), LAMBDA n : ~has_decision_ancestry(v, ord, n))
        orphaned_behaviors == [i \in 1..Len(bs) |-> bs[i].id]
    IN  IF orphaned_behaviors # <<>>
        THEN <<[axiom_name |-> "EXISTENCE_AXIOM",
                violation_type |-> "unexplained_behavior",
                severity |-> ExistenceSeverity,
                evidence |-> [orphaned_behaviors |-> orphaned_behaviors],
                causal_chain |-> << <<"undefined_origin">>, <<"behavior_without_decision">> >>,
                explanation |-> <<"Found ", ToString(Len(orphaned_behaviors)),
                                  " behaviors with no decision origin">>]>>
        ELSE <<>>

\* ContradictionLaw.verify
ContradictionLaw_verify(v, ctx, ord) ==
    LET contradictions == find_contradictions(v, ord)
        max_severity == RMaxSeq([i \in 1..Len(contradictions) |-> contradictions[i].severity])
        primary_contradiction ==
            contradictions[CHOOSE i \in 1..Len(contradictions) :
                              /\ contradictions[i].severity = max_severity
                              /\ \A j \in 1..(i-1) : contradictions[j].severity # max_severity]
    IN  IF contradictions # <<>>
        THEN <<[axiom_name |-> "CONTRADICTION_LAW",
                violation_type |-> "contradiction",
                severity |-> max_severity,
                evidence |-> [contradictions |-> [i \in 1..Len(contradictions) |->
                                                    contradiction_to_dict(contradictions[i])],
                              primary |-> contradiction_to_dict(primary_contradiction)],
                causal_chain |-> primary_contradiction.causal_chain,
                explanation |-> primary_contradiction.explanation]>>
        ELSE <<>>

InevitabilityThreshold == Pct(95)

\* InevitabilityAxiom.verify
InevitabilityAxiom_verify(v, ctx, ord) ==
    LET f == Get(ctx, "failure_inevitability_index", Zero)
    IN  IF RGe(f, InevitabilityThreshold)
        THEN <<[axiom_name |-> "INEVITABILITY_AXIOM",
                violation_type |-> "inevitability",
                severity |-> f,
                evidence |-> [fii |-> f, failure_paths |-> Get(ctx, "failure_paths", <<>>),
                              escape_paths |-> 0],
                causal_chain |-> << <<"all_paths_analyzed">>, <<"no_escape_route">>, <<"collapse_certain">> >>,
                explanation |-> <<"Failure Inevitability Index: ">> \o FmtPct2(f)
                                \o <<". No viable execution path exists.">>]>>
        ELSE <<>>

CriticalScenario == 70
CounterfactualSeverityCap == Pct(90)

\* CounterfactualValidityAxiom.verify
CounterfactualValidityAxiom_verify(v, ctx, ord) ==
    LET counterfactual_results == Get(ctx, "counterfactual_results", <<>>)
        failed_scenarios == SelectSeq(counterfactual_results, LAMBDA r : ~r.survived)
        critical_failures == SelectSeq(failed_scenarios, LAMBDA r : r.scenario_criticality >= CriticalScenario)
        failure_rate == IF counterfactual_results # <<>>
                        THEN R(Len(failed_scenarios), Len(counterfactual_results)) ELSE Zero
    IN  IF critical_failures # <<>>
        THEN <<[axiom_name |-> "COUNTERFACTUAL_VALIDITY",
                violation_type |-> "counterfactual_failure",
                severity |-> RMin(CounterfactualSeverityCap, failure_rate),
                evidence |-> [failed_scenarios |-> Len(failed_scenarios),
                              critical_failures |-> Len(critical_failures),
                              total_tested |-> Len(counterfactual_results),
                              details |-> Prefix(critical_failures, 3)],
                causal_chain |-> << <<"counterfactual_test">>, <<"critical_scenario_failure">> >>,
                explanation |-> <<"System collapsed in ", ToString(Len(critical_failures)),
                                  " critical alternate scenarios">>]>>
        ELSE <<>>

HumanDependencySeverity == Pct(85)

\* HumanDependencyParadox.verify
HumanDependencyParadox_verify(v, ctx, ord) ==
    LET human_dependencies == Get(ctx, "human_dependencies", <<>>)
        critical_dependencies ==
            SelectSeq(human_dependencies, LAMBDA h : Get(h, "is_single_point_of_failure", FALSE))
    IN  IF critical_dependencies # <<>>
        THEN <<[axiom_name |-> "HUMAN_DEPENDENCY_PARADOX",
                violation_type |-> "human_dependency",
                severity |-> HumanDependencySeverity,
                evidence |-> [critical_humans |-> [i \in 1..Len(critical_dependencies) |->
                                                     critical_dependencies[i].identifier],
                              failure_scenarios |-> [i \in 1..Len(critical_dependencies) |->
                                                       critical_dependencies[i].failure_scenario]],
                causal_chain |-> << <<"human_identified">>, <<"no_redundancy">>, <<"single_point_of_failure">> >>,
                explanation |-> <<"System stability depends on ", ToString(Len(critical_dependencies)),
                                  " irreplaceable human(s)">>]>>
        ELSE <<>>

SilentAssumptionSeverity == Pct(75)

\* SilentAssumptionLaw.verify
SilentAssumptionLaw_verify(v, ctx, ord) ==
    LET assumptions == Get(ctx, "extracted_assumptions", <<>>)
        hostile_assumptions == Get(ctx, "hostile_assumptions", <<>>)
        violated_assumptions ==
            SelectSeq(hostile_assumptions, LAMBDA a : Get(a, "stress_test_failed", FALSE))
    IN  IF violated_assumptions # <<>>
        THEN <<[axiom_name |-> "SILENT_ASSUMPTION_LAW",
                violation_type |-> "silent_assumption",
                severity |-> SilentAssumptionSeverity,
                evidence |-> [total_assumptions |-> Len(assumptions),
                              violated |-> Len(violated_assumptions),
                              details |-> Prefix(violated_assumptions, 5)],
                causal_chain |-> << <<"assumption_extracted">>, <<"stress_test">>, <<"assumption_violated">> >>,
                explanation |-> <<ToString(Len(violated_assumptions)),
                                  " critical assumptions failed stress testing">>]>>
        ELSE <<>>

\* the divisor of the division CounterfactualValidityAxiom.verify carries out
counterfactual_divisors(ctx) ==
    LET counterfactual_results == Get(ctx, "counterfactual_results", <<>>)
        failed_scenarios == SelectSeq(counterfactual_results, LAMBDA r : ~r.survived)
        critical_failures == SelectSeq(failed_scenarios, LAMBDA r : r.scenario_criticality >= CriticalScenario)
    IN  IF critical_failures # <<>> /\ counterfactual_results # <<>>
        THEN <<Len(counterfactual_results)>> ELSE <<>>

\* the exception AxiomRegistry.verify_all ends with, "none" when it returns
verify_all_raised(v, ctx, ord) ==
    IF \E i \in 1..Len(counterfactual_divisors(ctx)) : counterfactual_divisors(ctx)[i] = 0
    THEN "ZeroDivisionError" ELSE "none"

\* a registry that stops at the first axiom that fires
verify_all_first_only(v, ctx, ord) ==
    Prefix(ExistenceAxiom_verify(v, ctx, ord)
               \o ContradictionLaw_verify(v, ctx, ord)
               \o InevitabilityAxiom_verify(v, ctx, ord)
               \o CounterfactualValidityAxiom_verify(v, ctx, ord)
               \o HumanDependencyParadox_verify(v, ctx, ord)
               \o SilentAssumptionLaw_verify(v, ctx, ord), 1)

\* AxiomRegistry.verify_all: the six axioms in the order of AxiomRegistry.__init__
verify_all(v, ctx, ord) ==
    ExistenceAxiom_verify(v, ctx, ord)
        \o ContradictionLaw_verify(v, ctx, ord)
        \o InevitabilityAxiom_verify(v, ctx, ord)
        \o CounterfactualValidityAxiom_verify(v, ctx, ord)
        \o HumanDependencyParadox_verify(v, ctx, ord)
        \o SilentAssumptionLaw_verify(v, ctx, ord)

\* AxiomRegistry.get_fatal_violations
get_fatal_violations(vs) == SelectSeq(vs, is_fatal)


----------------------------------------------------------------------------
(* FIICalculator *)

\* a node id as a text
T(id) == <<id>>

contradiction_path(c) ==
    [path_type |-> "contradiction", nodes |-> c.causal_chain, certainty |-> c.severity,
     explanation |-> c.explanation, dependents |-> {}]

DefaultCapacityFII == Inf

\* the body of the loop of _find_resource_exhaustion_paths for one Resource node
resource_exhaustion_path(v, ord, resource) ==
    LET capacity == Get(resource.metadata, "capacity", DefaultCapacityFII)
        requires_edges == SelectSeq(get_incoming_edges(v, ord, resource.id), LAMBDA e : e.type = "requires")
        total_demand == RSum([i \in 1..Len(requires_edges) |->
                                Get(get_node(v, requires_edges[i].source).metadata,
                                    "resource_demand", DefaultDemand)])
        certainty == IF RGt(capacity, Zero)
                     THEN RMin(One, RSub(RDiv(total_demand, capacity), One))
                     ELSE One
    IN  IF Len(requires_edges) > 0 /\ RGt(total_demand, capacity)
        THEN <<[path_type |-> "resource_exhaustion",
                nodes |-> [i \in 1..Len(requires_edges) |-> T(requires_edges[i].source)]
                          \o <<T(resource.id)>>,
                certainty |-> certainty,
                explanation |-> <<"Resource '">> \o resource.name \o <<"' exhausted: demand ">>
                                \o Num(total_demand) \o <<" > capacity ">> \o Num(capacity),
                dependents |-> {}]>>
        ELSE <<>>

\* a discovery that divides by the capacity whenever the demand exceeds it
exhaustion_divisors_unguarded(v, ord, resource) ==
    LET capacity == Get(resource.metadata, "capacity", DefaultCapacityFII)
        requires_edges == SelectSeq(get_incoming_edges(v, ord, resource.id), LAMBDA e : e.type = "requires")
        total_demand == RSum([i \in 1..Len(requires_edges) |->
                                Get(get_node(v, requires_edges[i].source).metadata,
                                    "resource_demand", DefaultDemand)])
    IN  IF Len(requires_edges) > 0 /\ RGt(total_demand, capacity)
        THEN <<capacity, capacity>>
        ELSE <<>>

\* the divisors of the two divisions by capacity that the loop body of
\* _find_resource_exhaustion_paths carries out for one Resource node
exhaustion_divisors(v, ord, resource) ==
    LET capacity == Get(resource.metadata, "capacity", DefaultCapacityFII)
        requires_edges == SelectSeq(get_incoming_edges(v, ord, resource.id), LAMBDA e : e.type = "requires")
        total_demand == RSum([i \in 1..Len(requires_edges) |->
                                Get(get_node(v, requires_edges[i].source).metadata,
                                    "resource_demand", DefaultDemand)])
    IN  IF Len(requires_edges) > 0 /\ RGt(total_demand, capacity)
        THEN (IF RGt(capacity, Zero) THEN <<capacity>> ELSE <<>>)
                 \o (IF RGt(capacity, Zero) THEN <<capacity>> ELSE <<>>)
        ELSE <<>>

find_resource_exhaustion_paths(v, ord) ==
    LET rs == get_nodes_by_type(v, "resource")
    IN  Concat([i \in 1..Len(rs) |-> resource_exhaustion_path(v, ord, rs[i])])

\* _find_all_dependents: the while loop over the stack
RECURSIVE DependentsLoop(_, _, _, _, _)
DependentsLoop(v, ord, stack, visited, dependents) ==
    IF stack = <<>> THEN dependents
    ELSE LET current == stack[Len(stack)]
             rest == SubSeq(stack, 1, Len(stack) - 1)
         IN  IF current \in visited THEN DependentsLoop(v, ord, rest, visited, dependents)
             ELSE LET out == SelectSeq(get_outgoing_edges(v, ord, current),
                                       LAMBDA e : e.type \in {"causes", "enables"})
                      targets == [i \in 1..Len(out) |-> out[i].target]
                  IN  DependentsLoop(v, ord, rest \o targets, visited \cup {current},
                                     dependents \cup Range(targets))

find_all_dependents(v, ord, node_id) == DependentsLoop(v, ord, <<node_id>>, {}, {})

CascadeThreshold == 80
CascadeMinDependents == 3
CascadeCap == Pct(90)

\* _find_cascading_failure_paths; list(dependents) has no defined order and is kept as a set
find_cascading_failure_paths(v, ord) ==
    LET critical_nodes == get_critical_nodes(v, CascadeThreshold)
        one(node) ==
            LET dependents == find_all_dependents(v, ord, node.id)
            IN  IF Cardinality(dependents) > CascadeMinDependents
                THEN <<[path_type |-> "cascading_failure",
                        nodes |-> <<T(node.id)>>,
                        certainty |-> RMin(CascadeCap, R(Cardinality(dependents), 10)),
                        explanation |-> <<"Failure of '">> \o node.name \o <<"' cascades to ",
                                          ToString(Cardinality(dependents)), " components">>,
                        dependents |-> dependents]>>
                ELSE <<>>
    IN  Concat([i \in 1..Len(critical_nodes) |-> one(critical_nodes[i])])

SpofCriticality == 70
SpofCap == Pct(95)

\* _find_spof_paths
find_spof_paths(v, ord) ==
    LET nodes == NodeList(v)
        one(node) ==
            LET dependents == find_all_dependents(v, ord, node.id)
                critical_dependents == {d \in dependents : get_node(v, d).criticality > SpofCriticality}
                has_redundancy == Get(node.metadata, "has_redundancy", FALSE)
                k == Cardinality(critical_dependents)
            IN  IF ~has_redundancy /\ k > 1
                THEN <<[path_type |-> IF node.type = "resource" THEN "human_dependency"
                                      ELSE "cascading_failure",
                        nodes |-> <<T(node.id)>>,
                        certainty |-> RMin(SpofCap, RAdd(Pct(70), RMul(R(k, 1), Pct(5)))),
                        explanation |-> <<"'">> \o node.name \o <<"' is a single point of failure for ",
                                          ToString(k), " critical components">>,
                        dependents |-> critical_dependents]>>
                ELSE <<>>
    IN  Concat([i \in 1..Len(nodes) |-> one(nodes[i])])

DeadlockCertainty == Pct(80)

RECURSIVE JoinNames(_, _)
JoinNames(v, cycle) ==
    IF cycle = <<>> THEN <<>>
    ELSE IF Len(cycle) = 1 THEN get_node(v, cycle[1]).name
    ELSE get_node(v, cycle[1]).name \o <<" -> ">> \o JoinNames(v, Tail(cycle))

deadlock_path(v, cycle) ==
    [path_type |-> "deadlock",
     nodes |-> [i \in 1..Len(cycle) |-> T(cycle[i])],
     certainty |-> DeadlockCertainty,
     explanation |-> <<"Circular dependency detected: ">> \o JoinNames(v, cycle),
     dependents |-> {}]

\* has_cycle, the closure of _find_deadlock_paths. st holds the variables it shares with
\* its caller (visited, rec_stack, current_path, paths); the result is st after the call
\* and the value returned.
RECURSIVE has_cycle(_, _, _, _)
RECURSIVE has_cycle_loop(_, _, _, _, _)
has_cycle(v, ord, st, node_id) ==
    has_cycle_loop(v, ord,
                   [st EXCEPT !.visited = @ \cup {node_id},
                              !.rec_stack = @ \cup {node_id},
                              !.current_path = Append(@, node_id)],
                   node_id, get_outgoing_edges(v, ord, node_id))

has_cycle_loop(v, ord, st, node_id, edges) ==
    IF edges = <<>>
    THEN [st |-> [st EXCEPT !.current_path = SubSeq(@, 1, Len(@) - 1),
                            !.rec_stack = @ \ {node_id}],
          ret |-> FALSE]
    ELSE LET edge == Head(edges)
             target == edge.target
         IN  IF edge.type \in {"requires", "depends_on"}
             THEN IF target \notin st.visited
                  THEN LET r == has_cycle(v, ord, st, target)
                       IN  IF r.ret THEN [st |-> r.st, ret |-> TRUE]
                           ELSE has_cycle_loop(v, ord, r.st, node_id, Tail(edges))
                  ELSE IF target \in st.rec_stack
                  THEN LET cycle_start == IndexOf(st.current_path, target)
                           cycle == SubSeq(st.current_path, cycle_start, Len(st.current_path))
                       IN  [st |-> [st EXCEPT !.paths = Append(@, deadlock_path(v, cycle))],
                            ret |-> TRUE]
                  ELSE has_cycle_loop(v, ord, st, node_id, Tail(edges))
             ELSE has_cycle_loop(v, ord, st, node_id, Tail(edges))

RECURSIVE DeadlockRoots(_, _, _, _)
DeadlockRoots(v, ord, st, roots) ==
    IF roots = <<>> THEN st
    ELSE IF Head(roots) \notin st.visited
    THEN DeadlockRoots(v, ord, has_cycle(v, ord, st, Head(roots)).st, Tail(roots))
    ELSE DeadlockRoots(v, ord, st, Tail(roots))

\* a search that takes the first node of the graph as its only root
find_deadlock_paths_first_root(v, ord) ==
    DeadlockRoots(v, ord,
                  [visited |-> {}, rec_stack |-> {}, current_path |-> <<>>, paths |-> <<>>],
                  Prefix(v.nodeKeys, 1)).paths

\* _find_deadlock_paths
find_deadlock_paths(v, ord) ==
    DeadlockRoots(v, ord,
                  [visited |-> {}, rec_stack |-> {}, current_path |-> <<>>, paths |-> <<>>],
                  v.nodeKeys).paths

\* a discovery that leaves the contradictions out of the collapse paths
identify_collapse_paths_structural(v, ord) ==
    find_resource_exhaustion_paths(v, ord)
        \o find_cascading_failure_paths(v, ord)
        \o find_spof_paths(v, ord)
        \o find_deadlock_paths(v, ord)

\* _identify_collapse_paths
identify_collapse_paths(v, ord) ==
    LET contradictions == find_contradictions(v, ord)
    IN  [i \in 1..Len(contradictions) |-> contradiction_path(contradictions[i])]
        \o find_resource_exhaustion_paths(v, ord)
        \o find_cascading_failure_paths(v, ord)
        \o find_spof_paths(v, ord)
        \o find_deadlock_paths(v, ord)

\* the probabilistic OR written in _compute_base_fii and twice in _combine_factors
ProbOr(acc, p) == RSub(RAdd(acc, p), RMul(acc, p))

RECURSIVE FoldOr(_, _)
FoldOr(acc, ps) == IF ps = <<>> THEN acc ELSE FoldOr(ProbOr(acc, Head(ps).certainty), Tail(ps))

\* _compute_base_fii
compute_base_fii(collapse_paths) ==
    IF collapse_paths = <<>> THEN Zero ELSE FoldOr(Zero, collapse_paths)

\* _compute_violation_adjustment
compute_violation_adjustment(vs) ==
    IF vs = <<>> THEN Zero
    ELSE LET max_severity == RMaxSeq([i \in 1..Len(vs) |-> vs[i].severity])
             adjustment == RMul(max_severity, RAdd(One, RMul(Pct(5), R(Len(vs) - 1, 1))))
         IN  RMin(One, adjustment)

\* _compute_structure_adjustment
compute_structure_adjustment(v) ==
    LET stats == get_stats(v)
        critical_ratio == R(stats.critical_nodes, stats.total_nodes)
        assumption_ratio == R(stats.assumptions,
                              IF stats.decisions > 1 THEN stats.decisions ELSE 1)
    IN  IF stats.total_nodes = 0 THEN Zero
        ELSE RAdd(RMul(critical_ratio, Pct(30)), RMul(RMin(One, assumption_ratio), Pct(20)))

\* a structure adjustment that divides before it looks at the number of nodes
structure_divisors_unchecked(v) ==
    LET stats == get_stats(v)
    IN  <<R(stats.total_nodes, 1), R(IF stats.decisions > 1 THEN stats.decisions ELSE 1, 1)>>

\* the divisors of the divisions _compute_structure_adjustment carries out
structure_divisors(v) ==
    LET stats == get_stats(v)
    IN  IF stats.total_nodes = 0 THEN <<>>
        ELSE <<R(stats.total_nodes, 1), R(IF stats.decisions > 1 THEN stats.decisions ELSE 1, 1)>>

\* _combine_factors
combine_factors(b, vadj, sadj) == ProbOr(ProbOr(b, vadj), sadj)

\* the exception FIICalculator.compute ends with, "none" when it returns
compute_raised(v, vs, ord) ==
    LET rs == get_nodes_by_type(v, "resource")
        divisors == Concat([i \in 1..Len(rs) |-> exhaustion_divisors(v, ord, rs[i])])
                        \o structure_divisors(v)
    IN  IF \E i \in 1..Len(divisors) : divisors[i] = Zero THEN "ZeroDivisionError" ELSE "none"

\* FIICalculator.compute: the FII returned and the collapse paths left in the calculator
compute(v, vs, ord) ==
    LET collapse_paths == identify_collapse_paths(v, ord)
        f == combine_factors(compute_base_fii(collapse_paths),
                             compute_violation_adjustment(vs),
                             compute_structure_adjustment(v))
    IN  [fii |-> RMin(One, RMax(Zero, f)), collapse_paths |-> collapse_paths]


----------------------------------------------------------------------------
(* CounterfactualSimulator *)

\* the closures returned by _modify_* are kept as the data they capture
Modification(kind, multiplier, node_id) == [kind |-> kind, multiplier |-> multiplier, node_id |-> node_id]

Scenario(name, type, criticality, mod) ==
    [name |-> name, scenario_type |-> type, criticality |-> criticality, modifications |-> <<mod>>]

TopCritical == 3
TopHumans == 2
TopAssumptions == 3

\* a scenario list that takes every critical node, human and assumption
generate_standard_scenarios_uncapped(v) ==
    LET critical_nodes == get_critical_nodes(v, 80)
        resource_nodes == get_nodes_by_type(v, "resource")
        human_resources == SelectSeq(resource_nodes,
                               LAMBDA r : Contains(r.name, kw_human) \/ Contains(r.name, kw_engineer))
        assumptions == get_nodes_by_type(v, "assumption")
    IN  << Scenario(<<"Traffic Spike 1.5x">>, "traffic_spike", 70,
                    Modification("traffic_spike", R(3, 2), "")),
           Scenario(<<"Traffic Spike 3x">>, "traffic_spike", 80,
                    Modification("traffic_spike", R(3, 1), "")) >>
        \o [i \in 1..Len(critical_nodes) |->
              Scenario(<<"Node Failure: ">> \o critical_nodes[i].name, "node_failure", 90,
                       Modification("node_failure", Zero, critical_nodes[i].id))]
        \o [i \in 1..Len(human_resources) |->
              Scenario(<<"Human Unavailable: ">> \o human_resources[i].name, "human_unavailable", 85,
                       Modification("remove_resource", Zero, human_resources[i].id))]
        \o [i \in 1..Len(assumptions) |->
              Scenario(<<"Assumption Violated: ">> \o assumptions[i].name, "assumption_violated", 75,
                       Modification("violate_assumption", Zero, assumptions[i].id))]

\* CounterfactualSimulator.generate_standard_scenarios: the new value of self.scenarios
generate_standard_scenarios(v) ==
    LET critical_nodes == Prefix(get_critical_nodes(v, 80), TopCritical)
        resource_nodes == get_nodes_by_type(v, "resource")
        human_resources == Prefix(SelectSeq(resource_nodes,
                               LAMBDA r : Contains(r.name, kw_human) \/ Contains(r.name, kw_engineer)),
                               TopHumans)
        assumptions == Prefix(get_nodes_by_type(v, "assumption"), TopAssumptions)
    IN  << Scenario(<<"Traffic Spike 1.5x">>, "traffic_spike", 70,
                    Modification("traffic_spike", R(3, 2), "")),
           Scenario(<<"Traffic Spike 3x">>, "traffic_spike", 80,
                    Modification("traffic_spike", R(3, 1), "")) >>
        \o [i \in 1..Len(critical_nodes) |->
              Scenario(<<"Node Failure: ">> \o critical_nodes[i].name, "node_failure", 90,
                       Modification("node_failure", Zero, critical_nodes[i].id))]
        \o [i \in 1..Len(human_resources) |->
              Scenario(<<"Human Unavailable: ">> \o human_resources[i].name, "human_unavailable", 85,
                       Modification("remove_resource", Zero, human_resources[i].id))]
        \o [i \in 1..Len(assumptions) |->
              Scenario(<<"Assumption Violated: ">> \o assumptions[i].name, "assumption_violated", 75,
                       Modification("violate_assumption", Zero, assumptions[i].id))]

\* the address of the copy of a Node object made for the k-th clone
CopyAddr(k, id) == <<k, id>>

RECURSIVE CloneNodes(_, _, _, _, _)
CloneNodes(h, g, k, keys, w) ==
    IF keys = <<>> THEN w
    ELSE LET node == h[g.nodes[Head(keys)]]
             a == CopyAddr(k, node.id)
         IN  CloneNodes(h, g, k, Tail(keys),
                 [objs |-> DictSet(w.objs, a, node),
                  g |-> [w.g EXCEPT !.nodeKeys = DictKeys(w.g.nodeKeys, w.g.nodes, node.id),
                                    !.nodes = DictSet(w.g.nodes, node.id, a),
                                    !.adj = DictSet(w.g.adj, node.id, {}),
                                    !.radj = DictSet(w.g.radj, node.id, {})]])

RECURSIVE CloneEdges(_, _, _)
CloneEdges(g, keys, ng) ==
    IF keys = <<>> THEN ng
    ELSE LET new_edge == g.edges[Head(keys)]
         IN  CloneEdges(g, Tail(keys),
                 [ng EXCEPT !.edgeKeys = DictKeys(ng.edgeKeys, ng.edges, new_edge.id),
                            !.edges = DictSet(ng.edges, new_edge.id, new_edge),
                            !.adj = [ng.adj EXCEPT ![new_edge.source] = @ \cup {new_edge.id}],
                            !.radj = [ng.radj EXCEPT ![new_edge.target] = @ \cup {new_edge.id}]])

\* a clone whose node dict holds the Node objects of the original graph
clone_graph_shared_nodes(h, g, k) ==
    [objs |-> h, g |-> CloneEdges(g, g.edgeKeys,
                          [EmptyGraph EXCEPT !.nodeKeys = g.nodeKeys, !.nodes = g.nodes,
                                             !.adj = [n \in DOMAIN g.nodes |-> {}],
                                             !.radj = [n \in DOMAIN g.nodes |-> {}]])]

\* _clone_graph: the heap after the copies were allocated, and the new graph
clone_graph(h, g, k) ==
    LET w == CloneNodes(h, g, k, g.nodeKeys, [objs |-> h, g |-> EmptyGraph])
    IN  [objs |-> w.objs, g |-> CloneEdges(g, g.edgeKeys, w.g)]

RECURSIVE SpikeLoop(_, _, _, _)
SpikeLoop(h, g, sources, multiplier) ==
    IF sources = <<>> THEN h
    ELSE LET a == g.nodes[Head(sources)]
             md == h[a].metadata
         IN  SpikeLoop(IF "resource_demand" \in DOMAIN md
                       THEN [h EXCEPT ![a].metadata = MetaSet(md, "resource_demand",
                                                             RMul(md["resource_demand"], multiplier))]
                       ELSE h,
                       g, Tail(sources), multiplier)

\* the closure of _modify_traffic_spike(multiplier), applied to graph w.g
modify_traffic_spike(w, ord, multiplier) ==
    LET v == View(w.objs, w.g)
        resources == SelectSeq(get_nodes_by_type(v, "resource"),
                               LAMBDA r : Contains(r.name, kw_cpu) \/ Contains(r.name, kw_memory))
        sources == Concat([i \in 1..Len(resources) |->
                             LET incoming == get_incoming_edges(v, ord, resources[i].id)
                             IN  [j \in 1..Len(incoming) |-> incoming[j].source]])
    IN  [w EXCEPT !.objs = SpikeLoop(w.objs, w.g, sources, multiplier)]

RECURSIVE RemoveEdges(_, _)
RemoveEdges(g, edges_to_remove) ==
    IF edges_to_remove = <<>> THEN g
    ELSE LET edge_id == Head(edges_to_remove)
             edge == g.edges[edge_id]
         IN  RemoveEdges(
                 [g EXCEPT
                     !.adj = IF edge.source \in DOMAIN g.adj
                             THEN [g.adj EXCEPT ![edge.source] = @ \ {edge_id}] ELSE g.adj,
                     !.radj = IF edge.target \in DOMAIN g.radj
                              THEN [g.radj EXCEPT ![edge.target] = @ \ {edge_id}] ELSE g.radj,
                     !.edgeKeys = SeqRemove(g.edgeKeys, edge_id),
                     !.edges = DictDel(g.edges, edge_id)],
                 Tail(edges_to_remove))

\* a node failure that removes the node and only the edges leaving it
modify_node_failure_outgoing_only(w, node_id) ==
    LET g == w.g
        g1 == RemoveEdges(g, SelectSeq(g.edgeKeys, LAMBDA k : g.edges[k].source = node_id))
    IN  IF node_id \in DOMAIN g.nodes
        THEN [w EXCEPT !.g = [g1 EXCEPT !.nodeKeys = SeqRemove(g1.nodeKeys, node_id),
                                        !.nodes = DictDel(g1.nodes, node_id),
                                        !.adj = DictDel(g1.adj, node_id),
                                        !.radj = DictDel(g1.radj, node_id)]]
        ELSE w

\* the closure of _modify_node_failure(node_id), applied to graph w.g
modify_node_failure(w, node_id) ==
    LET g == w.g
        edges_to_remove == SelectSeq(g.edgeKeys,
                               LAMBDA k : g.edges[k].source = node_id \/ g.edges[k].target = node_id)
        g1 == RemoveEdges(g, edges_to_remove)
    IN  IF node_id \in DOMAIN g.nodes
        THEN [w EXCEPT !.g = [g1 EXCEPT !.nodeKeys = SeqRemove(g1.nodeKeys, node_id),
                                        !.nodes = DictDel(g1.nodes, node_id),
                                        !.adj = DictDel(g1.adj, node_id),
                                        !.radj = DictDel(g1.radj, node_id)]]
        ELSE w

\* the closure of _modify_remove_resource(resource_id), applied to graph w.g
modify_remove_resource(w, resource_id) ==
    IF resource_id \in DOMAIN w.g.nodes
    THEN LET a == w.g.nodes[resource_id]
         IN  [w EXCEPT !.objs[a].metadata =
                           MetaSet(MetaSet(@, "available", FALSE), "capacity", Zero)]
    ELSE w

\* uuid.uuid4() for the id of an Edge built without one: an id no edge of the graph has
UuidPool == <<"u1", "u2", "u3", "u4", "u5", "u6">>
Uuid(g) == UuidPool[CHOOSE i \in 1..Len(UuidPool) :
                       /\ UuidPool[i] \notin DOMAIN g.edges
                       /\ \A j \in 1..(i-1) : UuidPool[j] \in DOMAIN g.edges]

ViolatedAssumptionSeverity == Pct(85)

RECURSIVE ViolateLoop(_, _, _, _)
ViolateLoop(h, g, assumption_id, outgoing) ==
    IF outgoing = <<>> THEN g
    ELSE LET edge == Head(outgoing)
             contra_edge ==
                 [id |-> Uuid(g), source |-> edge.target, target |-> assumption_id,
                  type |-> "contradicts",
                  metadata |-> [reason |-> <<"Assumption '">> \o h[g.nodes[assumption_id]].name
                                           \o <<"' violated">>,
                                severity |-> ViolatedAssumptionSeverity]]
         IN  ViolateLoop(h, IF edge.type = "assumes" THEN add_edge(g, contra_edge).g ELSE g,
                         assumption_id, Tail(outgoing))

\* the closure of _modify_violate_assumption(assumption_id), applied to graph w.g
modify_violate_assumption(w, ord, assumption_id) ==
    IF assumption_id \in DOMAIN w.g.nodes
    THEN [w EXCEPT !.g = ViolateLoop(w.objs, w.g, assumption_id,
                                     get_outgoing_edges(w.g, ord, assumption_id))]
    ELSE w

\* modification(test_graph)
apply_modification(w, ord, mod) ==
    CASE mod.kind = "traffic_spike" -> modify_traffic_spike(w, ord, mod.multiplier)
      [] mod.kind = "node_failure" -> modify_node_failure(w, mod.node_id)
      [] mod.kind = "remove_resource" -> modify_remove_resource(w, mod.node_id)
      [] mod.kind = "violate_assumption" -> modify_violate_assumption(w, ord, mod.node_id)

RECURSIVE ApplyAll(_, _, _)
ApplyAll(w, ord, mods) ==
    IF mods = <<>> THEN w ELSE ApplyAll(apply_modification(w, ord, Head(mods)), ord, Tail(mods))

SurvivalThreshold == Pct(90)

\* a result whose collapse reason always quotes the FII
scenario_outcome_reason_from_fii(scenario, vs, fii_after) ==
    LET fatal_violations == get_fatal_violations(vs)
        survived == Len(fatal_violations) = 0 /\ RLt(fii_after, SurvivalThreshold)
        collapse_reason == <<"FII reached ">> \o FmtPct2(fii_after) \o <<" - inevitable failure">>
    IN  [scenario |-> scenario,
         survived |-> survived,
         collapse_reason |-> IF ~survived THEN collapse_reason ELSE <<>>,
         fii_after |-> fii_after,
         new_violations |-> vs,
         explanation |-> IF ~survived
                         THEN <<"System collapsed under '">> \o scenario.name \o <<"': ">>
                              \o collapse_reason
                         ELSE <<"System survived '">> \o scenario.name \o <<"' (FII: ">>
                              \o FmtPct2(fii_after) \o <<")">>]

\* _test_scenario from `survived = ...` on: the CounterfactualResult
scenario_outcome(scenario, vs, fii_after) ==
    LET fatal_violations == get_fatal_violations(vs)
        survived == Len(fatal_violations) = 0 /\ RLt(fii_after, SurvivalThreshold)
        collapse_reason ==
            IF fatal_violations # <<>>
            THEN <<"Fatal axiom violation: ">> \o fatal_violations[1].explanation
            ELSE <<"FII reached ">> \o FmtPct2(fii_after) \o <<" - inevitable failure">>
    IN  [scenario |-> scenario,
         survived |-> survived,
         collapse_reason |-> IF ~survived THEN collapse_reason ELSE <<>>,
         fii_after |-> fii_after,
         new_violations |-> vs,
         explanation |-> IF ~survived
                         THEN <<"System collapsed under '">> \o scenario.name \o <<"': ">>
                              \o collapse_reason
                         ELSE <<"System survived '">> \o scenario.name \o <<"' (FII: ">>
                              \o FmtPct2(fii_after) \o <<")">>]

\* _test_scenario from the FIICalculator on, given the violations of test_graph
scenario_scored(tv, scenario, ord, vs) ==
    scenario_outcome(scenario, vs, compute(tv, vs, ord).fii)

\* _test_scenario with an FIICalculator and a survival test that are handed no violations
scenario_result_without_violations(tv, scenario, ord) ==
    scenario_scored(tv, scenario, ord, <<>>)

\* _test_scenario after the clone was mutated into test_graph (view tv):
\* verification, FII, survival and the CounterfactualResult
scenario_result(tv, scenario, ord) ==
    scenario_scored(tv, scenario, ord,
                    verify_all(tv, [counterfactual_mode |-> TRUE, scenario |-> scenario.name], ord))

\* _test_scenario up to the end of the modifications: the heap and test_graph
mutated_clone(h, g, k, scenario, ord) ==
    ApplyAll(clone_graph(h, g, k), ord, scenario.modifications)


----------------------------------------------------------------------------
(* ExistenceJudge *)

RECURSIVE Join(_, _)
Join(sep, texts) ==
    IF texts = <<>> THEN <<>>
    ELSE IF Len(texts) = 1 THEN texts[1]
    ELSE texts[1] \o <<sep>> \o Join(sep, Tail(texts))

\* _count_cf_failures
count_cf_failures(cfs) == Len(SelectSeq(cfs, LAMBDA r : ~r.survived))

Verdict(tag, certainty, reason, evidence, f, vs, cf_failures, chain) ==
    [verdict |-> tag, certainty |-> certainty, primary_reason |-> reason,
     supporting_evidence |-> evidence, failure_inevitability_index |-> f,
     axiom_violations |-> vs, counterfactual_failures |-> cf_failures, proof_chain |-> chain]

\* _verdict_fatal_axiom
verdict_fatal_axiom(f, vs, cfs, violation) ==
    Verdict("NOT_PERMISSIBLE", One,
            <<"Fatal violation of ", violation.axiom_name>>,
            << violation.explanation,
               <<"Severity: ">> \o FmtPct2(violation.severity),
               <<"Violation type: ", violation.violation_type>> >>,
            f, vs, count_cf_failures(cfs),
            << <<"AXIOM_VERIFICATION">>, <<violation.axiom_name>>, <<violation.violation_type>>,
               <<"severity=">> \o FmtF2(violation.severity),
               <<"FATAL_VIOLATION">>, <<"SYSTEM_INVALID">> >>)

\* _verdict_inevitable_failure
verdict_inevitable_failure(f, vs, cfs) ==
    Verdict("NOT_PERMISSIBLE", One,
            <<"Failure Inevitability Index: ">> \o FmtPct2(f),
            << <<"All execution paths lead to system collapse">>,
               <<"FII threshold exceeded: ">> \o FmtPct2(f) \o <<" >= 90%">>,
               <<"Per Inevitability Axiom: system is logically failed">> >>,
            f, vs, count_cf_failures(cfs),
            << <<"FII_CALCULATION">>, <<"fii=">> \o FmtF4(f), <<"fii >= 0.90">>,
               <<"INEVITABILITY_AXIOM_TRIGGERED">>, <<"COLLAPSE_CERTAIN">>, <<"SYSTEM_INVALID">> >>)

\* _verdict_counterfactual_failure
verdict_counterfactual_failure(f, vs, cfs, failures) ==
    Verdict("NOT_PERMISSIBLE", Pct(95),
            <<"System collapsed in ", ToString(Len(failures)), " critical scenarios">>,
            [i \in 1..Len(Prefix(failures, 3)) |-> <<"Failed scenario: ">> \o failures[i].scenario.name]
                \o << <<"Per Counterfactual Validity Axiom: system is fundamentally fragile">> >>,
            f, vs, Len(failures),
            << <<"COUNTERFACTUAL_SIMULATION">>,
               <<"critical_failures=", ToString(Len(failures))>>,
               failures[1].scenario.name,
               failures[1].collapse_reason,
               <<"COUNTERFACTUAL_VALIDITY_VIOLATED">>, <<"SYSTEM_INVALID">> >>)

\* _identify_missing_data
identify_missing_data(v) ==
    LET stats == get_stats(v)
    IN  (IF stats.decisions = 0 THEN << <<"engineering decisions">> >> ELSE <<>>)
        \o (IF stats.behaviors = 0 THEN << <<"system behaviors">> >> ELSE <<>>)
        \o (IF stats.total_edges = 0 THEN << <<"causal relationships">> >> ELSE <<>>)
        \o (IF stats.assumptions = 0 THEN << <<"system assumptions">> >> ELSE <<>>)

\* _verdict_unverified
verdict_unverified(v, f, vs, cfs) ==
    LET missing == identify_missing_data(v)
    IN  Verdict("UNVERIFIED", Pct(50),
                <<"Insufficient data to render verdict">>,
                << <<"Missing: ">> \o Join(", ", missing),
                   <<"Cannot verify system without complete model">>,
                   <<"Recommendation: Provide additional system specifications">> >>,
                f, vs, count_cf_failures(cfs),
                << <<"DATA_COMPLETENESS_CHECK">>, <<"INCOMPLETE_MODEL">>,
                   <<"missing=[">> \o Join(", ", missing) \o <<"]">>,
                   <<"CANNOT_VERIFY">>, <<"VERDICT_UNVERIFIED">> >>)

\* _verdict_permissible_fragile
verdict_permissible_fragile(f, vs, cfs) ==
    Verdict("PERMISSIBLE", Pct(75),
            <<"System is logically permissible but exhibits fragility">>,
            << <<"FII: ">> \o FmtPct2(f) \o <<" (elevated but below threshold)">>,
               <<"Axiom violations: ", ToString(Len(vs)), " (non-fatal)">>,
               <<"System may survive but requires careful operation">> >>,
            f, vs, count_cf_failures(cfs),
            << <<"AXIOM_VERIFICATION">>, <<"no_fatal_violations">>, <<"FII_CALCULATION">>,
               <<"fii=">> \o FmtF4(f), <<"fii < 0.90">>, <<"COUNTERFACTUAL_VALIDATION">>,
               <<"acceptable_failure_rate">>, <<"VERDICT_PERMISSIBLE_FRAGILE">> >>)

\* _verdict_permissible_robust
verdict_permissible_robust(f, vs, cfs) ==
    Verdict("PERMISSIBLE", One,
            <<"System is logically permissible and robust">>,
            << <<"FII: ">> \o FmtPct2(f) \o <<" (low)">>,
               <<"No fatal axiom violations (", ToString(Len(vs)), " minor issues)">>,
               <<"Survived critical counterfactual scenarios">>,
               <<"System demonstrates structural soundness">> >>,
            f, vs, count_cf_failures(cfs),
            << <<"AXIOM_VERIFICATION">>, <<"no_fatal_violations">>, <<"FII_CALCULATION">>,
               <<"fii=">> \o FmtF4(f), <<"fii < 0.70">>, <<"COUNTERFACTUAL_VALIDATION">>,
               <<"critical_scenarios_survived">>, <<"VERDICT_PERMISSIBLE_ROBUST">> >>)

\* a completeness test that also asks for the assumptions _identify_missing_data lists
has_sufficient_data_wants_assumptions(v, ord) ==
    LET stats == get_stats(v)
        behaviors == get_behavior_nodes(v)
    IN  IF stats.decisions = 0 THEN FALSE
        ELSE IF stats.total_edges = 0 THEN FALSE
        ELSE IF stats.assumptions = 0 THEN FALSE
        ELSE \A i \in 1..Len(behaviors) : has_decision_ancestry(v, ord, behaviors[i])

\* _has_sufficient_data
has_sufficient_data(v, ord) ==
    LET stats == get_stats(v)
        behaviors == get_behavior_nodes(v)
    IN  IF stats.decisions = 0 THEN FALSE
        ELSE IF stats.total_edges = 0 THEN FALSE
        ELSE \A i \in 1..Len(behaviors) : has_decision_ancestry(v, ord, behaviors[i])

InevitableFII == Pct(90)
FragileFII == Pct(70)
FragileViolations == 3
MinCriticalFailures == 2

\* a Judge that looks at the FII before it looks for fatal violations
render_verdict_fii_first(v, vs, f, cfs, ord) ==
    LET fatal_violations == SelectSeq(vs, is_fatal)
        critical_cf_failures ==
            SelectSeq(cfs, LAMBDA r : ~r.survived /\ r.scenario.criticality >= CriticalScenario)
    IN  IF RGe(f, InevitableFII) THEN verdict_inevitable_failure(f, vs, cfs)
        ELSE IF fatal_violations # <<>> THEN verdict_fatal_axiom(f, vs, cfs, fatal_violations[1])
        ELSE IF Len(critical_cf_failures) >= MinCriticalFailures
             THEN verdict_counterfactual_failure(f, vs, cfs, critical_cf_failures)
        ELSE IF ~has_sufficient_data(v, ord) THEN verdict_unverified(v, f, vs, cfs)
        ELSE IF RGe(f, FragileFII) \/ Len(vs) > FragileViolations
             THEN verdict_permissible_fragile(f, vs, cfs)
        ELSE verdict_permissible_robust(f, vs, cfs)

\* a Judge that counts a scenario as critical only above 0.7 and asks for
\* more than two such failures
render_verdict_strict_counts(v, vs, f, cfs, ord) ==
    LET fatal_violations == SelectSeq(vs, is_fatal)
        critical_cf_failures ==
            SelectSeq(cfs, LAMBDA r : ~r.survived /\ r.scenario.criticality > CriticalScenario)
    IN  IF fatal_violations # <<>> THEN verdict_fatal_axiom(f, vs, cfs, fatal_violations[1])
        ELSE IF RGe(f, InevitableFII) THEN verdict_inevitable_failure(f, vs, cfs)
        ELSE IF Len(critical_cf_failures) > MinCriticalFailures
             THEN verdict_counterfactual_failure(f, vs, cfs, critical_cf_failures)
        ELSE IF ~has_sufficient_data(v, ord) THEN verdict_unverified(v, f, vs, cfs)
        ELSE IF RGe(f, FragileFII) \/ Len(vs) > FragileViolations
             THEN verdict_permissible_fragile(f, vs, cfs)
        ELSE verdict_permissible_robust(f, vs, cfs)

\* a Judge that builds the fatal verdict from the last fatal violation
render_verdict_last_fatal(v, vs, f, cfs, ord) ==
    LET fatal_violations == SelectSeq(vs, is_fatal)
        critical_cf_failures ==
            SelectSeq(cfs, LAMBDA r : ~r.survived /\ r.scenario.criticality >= CriticalScenario)
    IN  IF fatal_violations # <<>>
        THEN verdict_fatal_axiom(f, vs, cfs, fatal_violations[Len(fatal_violations)])
        ELSE IF RGe(f, InevitableFII) THEN verdict_inevitable_failure(f, vs, cfs)
        ELSE IF Len(critical_cf_failures) >= MinCriticalFailures
             THEN verdict_counterfactual_failure(f, vs, cfs, critical_cf_failures)
        ELSE IF ~has_sufficient_data(v, ord) THEN verdict_unverified(v, f, vs, cfs)
        ELSE IF RGe(f, FragileFII) \/ Len(vs) > FragileViolations
             THEN verdict_permissible_fragile(f, vs, cfs)
        ELSE verdict_permissible_robust(f, vs, cfs)

\* ExistenceJudge.render_verdict
render_verdict(v, vs, f, cfs, ord) ==
    LET fatal_violations == SelectSeq(vs, is_fatal)
        critical_cf_failures ==
            SelectSeq(cfs, LAMBDA r : ~r.survived /\ r.scenario.criticality >= CriticalScenario)
    IN  IF fatal_violations # <<>> THEN verdict_fatal_axiom(f, vs, cfs, fatal_violations[1])
        ELSE IF RGe(f, InevitableFII) THEN verdict_inevitable_failure(f, vs, cfs)
        ELSE IF Len(critical_cf_failures) >= MinCriticalFailures
             THEN verdict_counterfactual_failure(f, vs, cfs, critical_cf_failures)
        ELSE IF ~has_sufficient_data(v, ord) THEN verdict_unverified(v, f, vs, cfs)
        ELSE IF RGe(f, FragileFII) \/ Len(vs) > FragileViolations
             THEN verdict_permissible_fragile(f, vs, cfs)
        ELSE verdict_permissible_robust(f, vs, cfs)


----------------------------------------------------------------------------
(* The state machine: the operations a caller performs on one RealityGraph, *)
(* one AxiomRegistry, one CounterfactualSimulator and the Judge.            *)

\* the address of the Node object a caller hands to add_node
BaseAddr(id) == <<0, id>>

Node(id, tpl) ==
    [id |-> id, type |-> tpl.type, name |-> tpl.name,
     criticality |-> tpl.criticality, metadata |-> tpl.metadata]

Edge(id, source, target, kind) ==
    [id |-> id, source |-> source, target |-> target, type |-> kind.type, metadata |-> kind.metadata]

NoVerdict == Verdict("NONE", Zero, <<>>, <<>>, Zero, <<>>, 0, <<>>)

\* AnalysisResult.__init__
NoResult ==
    [verdict |-> "None", risk |-> "None", score |-> 100, confidence |-> One,
     findings |-> <<>>, metadata |-> NoMeta]

Idle == [i |-> 0, clones |-> <<>>, results |-> <<>>]

Op(name, raised, arg) == [name |-> name, raised |-> raised, arg |-> arg]

\* RealityGraph() and CounterfactualSimulator(graph, registry) just constructed
InitEmpty ==
    /\ objs = [a \in {} |-> 0]
    /\ base = EmptyGraph
    /\ context = [k \in {} |-> 0]
    /\ scenarios = <<>>
    /\ sim = Idle
    /\ violations = <<>>
    /\ fii = Zero
    /\ cf_results = <<>>
    /\ paths = <<>>
    /\ verdict = NoVerdict
    /\ op = Op("init", "none", <<>>)
    /\ calls = 0
    /\ analysis = NoResult

\* bound on the number of add_node and add_edge calls of a run
MaxCalls == 4

\* the graph is populated before it is analysed
Building == scenarios = <<>> /\ sim.i = 0 /\ verdict = NoVerdict

\* graph.add_node(node)
AddNode(node) ==
    /\ Building
    /\ calls < MaxCalls
    /\ objs' = DictSet(objs, BaseAddr(node.id), node)
    /\ base' = add_node(base, node.id, BaseAddr(node.id))
    /\ op' = Op("add_node", "none", <<node.id>>)
    /\ calls' = calls + 1
    /\ UNCHANGED <<context, scenarios, sim, violations, fii, cf_results, paths, verdict, analysis>>

\* graph.add_edge(edge)
AddEdge(edge) ==
    /\ Building
    /\ calls < MaxCalls
    /\ LET r == add_edge(base, edge)
       IN  /\ base' = r.g
           /\ op' = Op("add_edge", r.raised, <<edge>>)
    /\ calls' = calls + 1
    /\ UNCHANGED <<objs, context, scenarios, sim, violations, fii, cf_results, paths, verdict, analysis>>

\* simulator.generate_standard_scenarios()
GenerateStandardScenarios ==
    /\ sim.i = 0
    /\ scenarios' = generate_standard_scenarios(View(objs, base))
    /\ op' = Op("generate_standard_scenarios", "none", <<>>)
    /\ UNCHANGED <<objs, base, context, sim, violations, fii, cf_results, paths, verdict, calls, analysis>>

BaseAddrs == {base.nodes[id] : id \in DOMAIN base.nodes}

\* simulator.run_simulation(): entry. The clones of an earlier run are no longer referenced.
RunSimulation ==
    /\ sim.i = 0
    /\ sim' = [i |-> 1, clones |-> <<>>, results |-> <<>>]
    /\ objs' = Restrict(objs, BaseAddrs)
    /\ op' = Op("run_simulation", "none", <<>>)
    /\ UNCHANGED <<base, context, scenarios, violations, fii, cf_results, paths, verdict, calls, analysis>>

\* run_simulation: one iteration of the loop, result = self._test_scenario(scenario)
TestScenario ==
    /\ sim.i \in 1..Len(scenarios)
    /\ \E w \in {mutated_clone(objs, base, sim.i, scenarios[sim.i], ord1) :
                    ord1 \in Orders(clone_graph(objs, base, sim.i).g)} :
         \E result \in {scenario_result(View(w.objs, w.g), scenarios[sim.i], ord2) :
                           ord2 \in Orders(w.g)} :
            /\ objs' = w.objs
            /\ sim' = [i |-> sim.i + 1,
                       clones |-> Append(sim.clones, w.g),
                       results |-> Append(sim.results, result)]
            /\ op' = Op("test_scenario", "none", <<scenarios[sim.i]>>)
    /\ UNCHANGED <<base, context, scenarios, violations, fii, cf_results, paths, verdict, calls, analysis>>

\* run_simulation: return results
ReturnResults ==
    /\ sim.i = Len(scenarios) + 1
    /\ cf_results' = sim.results
    /\ sim' = [sim EXCEPT !.i = 0]
    /\ op' = Op("run_simulation_return", "none", <<>>)
    /\ UNCHANGED <<objs, base, context, scenarios, violations, fii, paths, verdict, calls, analysis>>

\* violations = registry.verify_all(graph, context)
VerifyAll ==
    /\ sim.i = 0
    /\ \E ord \in Orders(base) :
         IF verify_all_raised(View(objs, base), context, ord) = "none"
         THEN /\ violations' = verify_all(View(objs, base), context, ord)
              /\ op' = Op("verify_all", "none", <<>>)
         ELSE /\ violations' = violations
              /\ op' = Op("verify_all", verify_all_raised(View(objs, base), context, ord), <<>>)
    /\ UNCHANGED <<objs, base, context, scenarios, sim, fii, cf_results, paths, verdict, calls, analysis>>

\* calc = FIICalculator(graph, violations); fii = calc.compute()
ComputeFII ==
    /\ sim.i = 0
    /\ \E ord \in Orders(base) :
         IF compute_raised(View(objs, base), violations, ord) = "none"
         THEN LET r == compute(View(objs, base), violations, ord)
              IN  fii' = r.fii /\ paths' = r.collapse_paths
                     /\ op' = Op("compute", "none", <<>>)
         ELSE /\ fii' = fii /\ paths' = paths
              /\ op' = Op("compute", compute_raised(View(objs, base), violations, ord), <<>>)
    /\ UNCHANGED <<objs, base, context, scenarios, sim, violations, cf_results, verdict, calls, analysis>>

\* verdict = ExistenceJudge(graph, violations, fii, cf_results).render_verdict()
RenderVerdict ==
    /\ sim.i = 0
    /\ \E ord \in Orders(base) :
         verdict' = render_verdict(View(objs, base), violations, fii, cf_results, ord)
    /\ op' = Op("render_verdict", "none", <<>>)
    /\ UNCHANGED <<objs, base, context, scenarios, sim, violations, fii, cf_results, paths, calls, analysis>>


----------------------------------------------------------------------------
(* Inputs *)

NodeIds == <<"n1", "n2", "n3", "n4", "n5">>
EdgeIds == <<"e1", "e2", "e3", "e4", "e5", "e6">>
NodeId(i) == NodeIds[i]
EdgeId(i) == EdgeIds[i]

Tpl(type, name, criticality, metadata) ==
    [type |-> type, name |-> name, criticality |-> criticality, metadata |-> metadata]

Kind(type, metadata) == [type |-> type, metadata |-> metadata]

DefaultCriticality == 50

name_D == <<"D">>
name_cpu == <<"C", "p", "u">>
name_human == <<"H", "u", "m", "a", "n">>
name_A == <<"A">>
name_B == <<"B">>
name_R1 == <<"R", "1">>

Requires == Kind("requires", NoMeta)
Causes == Kind("causes", NoMeta)
Assumes == Kind("assumes", NoMeta)
DependsOn == Kind("depends_on", NoMeta)
Contradicts(sev) == Kind("contradicts", [severity |-> sev])
ContradictsDefault == Kind("contradicts", NoMeta)

----------------------------------------------------------------------------
(* SpecGraph: a graph is built by add_node and add_edge calls with ids the  *)
(* caller chooses (reused ids and missing endpoints included), then the     *)
(* simulator generates its scenarios and runs them.                         *)

MaxGraphNodes == 2
MaxGraphEdges == 2

GraphTemplates ==
    { Tpl("decision", name_D, 90, [resource_demand |-> R(8, 1)]),
      Tpl("resource", name_cpu, DefaultCriticality, [capacity |-> R(10, 1)]) }

\* Ids are taken in the order of their first use (renaming ids changes nothing):
\* a call uses an id already in the graph or the next unused one.
Upto(k, max) == 1..(IF k < max THEN k + 1 ELSE max)

GraphNodeInputs ==
    {Node(NodeId(i), tpl) : i \in Upto(Len(base.nodeKeys), MaxGraphNodes), tpl \in GraphTemplates}

GraphEdgeInputs ==
    {Edge(EdgeId(k), NodeId(i), NodeId(j), Requires) :
        k \in Upto(Len(base.edgeKeys), MaxGraphEdges),
        i \in Upto(Len(base.nodeKeys), MaxGraphNodes),
        j \in Upto(Len(base.nodeKeys), MaxGraphNodes)}

NextGraph ==
    \/ \E node \in GraphNodeInputs : AddNode(node)
    \/ \E edge \in GraphEdgeInputs : AddEdge(edge)
    \/ GenerateStandardScenarios
    \/ RunSimulation
    \/ TestScenario
    \/ ReturnResults

SpecGraph == InitEmpty /\ [][NextGraph]_vars

----------------------------------------------------------------------------
(* Structural invariant of a RealityGraph *)

Holders(buckets, eid) == {n \in DOMAIN buckets : eid \in buckets[n]}

IndexConsistent(g) ==
    /\ \A eid \in DOMAIN g.edges :
         /\ Holders(g.adj, eid) = {g.edges[eid].source}
         /\ Holders(g.radj, eid) = {g.edges[eid].target}
         /\ g.edges[eid].source \in DOMAIN g.nodes
         /\ g.edges[eid].target \in DOMAIN g.nodes
    /\ \A n \in DOMAIN g.adj : g.adj[n] \subseteq DOMAIN g.edges
    /\ \A n \in DOMAIN g.radj : g.radj[n] \subseteq DOMAIN g.edges

\* C1: after any sequence of add_node, add_edge (reused ids included) and node-failure
\* mutations, every edge id is in exactly one forward bucket (its source's) and one
\* reverse bucket (its target's), no bucket holds an unknown id, and both endpoints of
\* every edge are nodes; stated of the base graph and of every mutated clone.
C1_IndexInvariant ==
    /\ IndexConsistent(base)
    /\ \A k \in 1..Len(sim.clones) : IndexConsistent(sim.clones[k])

\* C2: add_edge with a missing source or target raises ValueError and leaves nodes,
\* edges and both adjacency maps (and the Node objects) as they were.
C2_RejectedEdgeNoMutation ==
    [][(/\ op'.name = "add_edge"
        /\ \/ op'.arg[1].source \notin DOMAIN base.nodes
           \/ op'.arg[1].target \notin DOMAIN base.nodes)
       => (op'.raised = "ValueError" /\ base' = base /\ objs' = objs)]_vars

C2_Witness ==
    /\ op.name = "add_edge"
    /\ op.raised = "ValueError"
    /\ op.arg[1].source \in DOMAIN base.nodes
    /\ op.arg[1].target \notin DOMAIN base.nodes
    /\ base.edgeKeys # <<>>


----------------------------------------------------------------------------
(* Graphs built by a sequence of add_node calls followed by add_edge calls *)

RECURSIVE BuildNodes(_, _)
BuildNodes(w, nodes) ==
    IF nodes = <<>> THEN w
    ELSE BuildNodes([objs |-> DictSet(w.objs, BaseAddr(Head(nodes).id), Head(nodes)),
                     g |-> add_node(w.g, Head(nodes).id, BaseAddr(Head(nodes).id))],
                    Tail(nodes))

RECURSIVE BuildEdges(_, _)
BuildEdges(g, edges) ==
    IF edges = <<>> THEN g ELSE BuildEdges(add_edge(g, Head(edges)).g, Tail(edges))

Build(nodes, edges) ==
    LET w == BuildNodes([objs |-> [a \in {} |-> 0], g |-> EmptyGraph], nodes)
    IN  [objs |-> w.objs, g |-> BuildEdges(w.g, edges)]

\* strictly increasing sequences of at most max numbers out of 1..n
RECURSIVE Increasing(_, _)
Increasing(n, max) ==
    IF max = 0 THEN {<<>>}
    ELSE LET shorter == Increasing(n, max - 1)
         IN  shorter \cup {Append(q, x) : q \in {q \in shorter : Len(q) = max - 1},
                                          x \in 1..n}
RisingSeqs(n, max) ==
    {q \in Increasing(n, max) : \A i \in 1..(Len(q) - 1) : q[i] < q[i + 1]}

\* the p-th ordered pair of 1..k
PairSource(p, k) == ((p - 1) \div k) + 1
PairTarget(p, k) == ((p - 1) % k) + 1

\* the caller's state once a graph was built from `nodes` and `edges`
InitBuilt(nodes, edges) ==
    /\ objs = Build(nodes, edges).objs
    /\ base = Build(nodes, edges).g
    /\ context = [k \in {} |-> 0]
    /\ scenarios = <<>>
    /\ sim = Idle
    /\ violations = <<>>
    /\ fii = Zero
    /\ cf_results = <<>>
    /\ paths = <<>>
    /\ verdict = NoVerdict
    /\ op = Op("init", "none", <<>>)
    /\ calls = Len(nodes) + Len(edges)
    /\ analysis = NoResult

----------------------------------------------------------------------------
(* SpecSim: the simulator on a populated graph. Node i is one of the two    *)
(* kinds listed for its position; an edge is a loop or goes from a node to  *)
(* the one added next, as Assumes when it leaves an Assumption and as       *)
(* Requires otherwise.                                                      *)

MaxSimNodes == 2
MaxSimEdges == 2

tpl_decision == Tpl("decision", name_D, 90, [resource_demand |-> R(8, 1)])
tpl_assumption == Tpl("assumption", name_A, DefaultCriticality, NoMeta)
tpl_cpu == Tpl("resource", name_cpu, DefaultCriticality, [capacity |-> R(10, 1)])
tpl_human == Tpl("resource", name_human, 80, NoMeta)

SimTemplates(i) ==
    CASE i = 1 -> {tpl_decision, tpl_assumption}
      [] i = 2 -> {tpl_cpu, tpl_human}
      [] OTHER -> {tpl_decision}

SimNodeSeqs ==
    UNION { {[i \in 1..k |-> Node(NodeId(i), f[i])] :
                f \in {f \in [1..k -> UNION {SimTemplates(i) : i \in 1..k}] :
                          \A i \in 1..k : f[i] \in SimTemplates(i)}} :
            k \in 0..MaxSimNodes }

SimEdge(nodes, n, p) ==
    LET src == nodes[PairSource(p, Len(nodes))]
        tgt == nodes[PairTarget(p, Len(nodes))]
    IN  Edge(EdgeId(n), src.id, tgt.id, IF src.type = "assumption" THEN Assumes ELSE Requires)

SimEdgeSeqs(nodes) ==
    {[n \in 1..Len(q) |-> SimEdge(nodes, n, q[n])] :
        q \in {q \in RisingSeqs(Len(nodes) * Len(nodes), MaxSimEdges) :
                  \A n \in 1..Len(q) :
                     PairTarget(q[n], Len(nodes)) - PairSource(q[n], Len(nodes)) \in {0, 1}}}

\* two Decisions and one Contradicts edge, its severity below the fatal bound,
\* on it, or left to the default
ContradictionGraphs ==
    { [nodes |-> <<Node("n1", Tpl("decision", name_A, DefaultCriticality, NoMeta)),
                   Node("n2", Tpl("decision", name_B, DefaultCriticality, NoMeta))>>,
       edges |-> <<Edge("e1", "n1", "n2", kind)>>] :
         kind \in {Contradicts(Pct(94)), Contradicts(Pct(95)), ContradictsDefault} }

InitSim ==
    \/ \E nodes \in SimNodeSeqs : \E edges \in SimEdgeSeqs(nodes) : InitBuilt(nodes, edges)
    \/ \E graph \in ContradictionGraphs : InitBuilt(graph.nodes, graph.edges)

NextSim ==
    \/ GenerateStandardScenarios
    \/ RunSimulation
    \/ TestScenario
    \/ ReturnResults

SpecSim == InitSim /\ [][NextSim]_vars

----------------------------------------------------------------------------
(* The simulator leaves the base graph alone *)

SimulatorSteps == {"run_simulation", "test_scenario", "run_simulation_return"}

\* C3: every step of run_simulation (entry, each _test_scenario, return) leaves
\* the base graph as it was: same node ids, same Node values (kind, criticality,
\* metadata), same edges and adjacency buckets; and a _test_scenario step leaves
\* the clone of every earlier scenario as it was, so a mutation shows only in
\* the clone it was applied to.
C3_BaseUntouched ==
    [][ op'.name \in SimulatorSteps =>
          /\ View(objs', base') = View(objs, base)
          /\ base'.nodeKeys = base.nodeKeys /\ base'.edgeKeys = base.edgeKeys
          /\ op'.name = "test_scenario" =>
                /\ Len(sim'.clones) = Len(sim.clones) + 1
                /\ \A k \in 1..Len(sim.clones) :
                      View(objs', sim'.clones[k]) = View(objs, sim.clones[k]) ]_vars

\* two scenarios were tested, both mutations are visible, each in its own clone
C3_Witness ==
    /\ op.name = "test_scenario"
    /\ Len(sim.clones) >= 2
    /\ LET last == View(objs, sim.clones[Len(sim.clones)])
       IN  /\ last # View(objs, base)
           /\ \E k \in 1..(Len(sim.clones) - 1) :
                 /\ View(objs, sim.clones[k]) # View(objs, base)
                 /\ View(objs, sim.clones[k]) # last

Incident(edge, x) == edge.source = x \/ edge.target = x

\* C4: when _test_scenario has applied the node-failure mutation for node X to
\* a clone of a base graph that contains X, the clone has no node X and no
\* edge from or to X, no forward or reverse bucket of a remaining node holds a
\* removed edge id, every base edge not incident to X is still in the clone,
\* and the base graph has as many edges as before.
C4_NodeFailureClean ==
    [][ (op'.name = "test_scenario" /\ op'.arg[1].scenario_type = "node_failure"
         /\ op'.arg[1].modifications[1].node_id \in DOMAIN base.nodes) =>
          LET x == op'.arg[1].modifications[1].node_id
              tg == sim'.clones[Len(sim'.clones)]
              removed == {id \in DOMAIN base.edges : Incident(base.edges[id], x)}
          IN  /\ x \notin DOMAIN tg.nodes
              /\ x \notin Range(tg.nodeKeys)
              /\ \A id \in DOMAIN tg.edges : ~Incident(tg.edges[id], x)
              /\ \A n \in DOMAIN tg.adj : tg.adj[n] \cap removed = {}
              /\ \A n \in DOMAIN tg.radj : tg.radj[n] \cap removed = {}
              /\ \A id \in DOMAIN base.edges \ removed :
                    id \in DOMAIN tg.edges /\ tg.edges[id] = base.edges[id]
              /\ Cardinality(DOMAIN base'.edges) = Cardinality(DOMAIN base.edges)
              /\ Len(base'.edgeKeys) = Len(base.edgeKeys) ]_vars

\* node X failed in a clone; the base has an edge into X, an edge out of X or a
\* loop on X, and an edge that does not touch X
C4_Witness ==
    /\ op.name = "test_scenario"
    /\ op.arg[1].scenario_type = "node_failure"
    /\ LET x == op.arg[1].modifications[1].node_id
           tg == sim.clones[Len(sim.clones)]
       IN  /\ x \in DOMAIN base.nodes
           /\ x \notin DOMAIN tg.nodes
           /\ \E id \in DOMAIN base.edges : base.edges[id].target = x
           /\ \E id \in DOMAIN base.edges : ~Incident(base.edges[id], x)
           /\ DOMAIN tg.edges # {}

----------------------------------------------------------------------------
(* SpecJudge: ExistenceJudge(graph, violations, fii, cf_results) on inputs  *)
(* handed to it directly, then render_verdict().                            *)

MaxViolations == 4
MaxCfResults == 2

tpl_behavior == Tpl("behavior", name_B, DefaultCriticality, NoMeta)

\* [nodes, edges] of: the empty graph; a lone Decision; a Decision causing a
\* Behavior; a Decision with a loop beside an orphaned Behavior; a lone
\* Behavior with a loop
JudgeGraphs ==
    { [nodes |-> <<>>, edges |-> <<>>],
      [nodes |-> <<Node("n1", tpl_decision)>>, edges |-> <<>>],
      [nodes |-> <<Node("n1", tpl_decision), Node("n2", tpl_behavior)>>,
       edges |-> <<Edge("e1", "n1", "n2", Causes)>>],
      [nodes |-> <<Node("n1", tpl_decision), Node("n2", tpl_behavior)>>,
       edges |-> <<Edge("e1", "n1", "n1", Requires)>>],
      [nodes |-> <<Node("n1", tpl_behavior)>>,
       edges |-> <<Edge("e1", "n1", "n1", Causes)>>] }

JudgeViolation(axiom_name, severity) ==
    [axiom_name |-> axiom_name, violation_type |-> "input", severity |-> severity,
     evidence |-> <<>>, causal_chain |-> <<>>, explanation |-> <<"violation of ", axiom_name>>]

\* a violation just below the fatal bound and one on it
JudgeViolations ==
    { JudgeViolation("SILENT_ASSUMPTION_LAW", Pct(94)),
      JudgeViolation("CONTRADICTION_LAW", Pct(95)) }

JudgeCfResult(name, criticality, survived) ==
    [scenario |-> Scenario(<<name>>, "node_failure", criticality, Modification("node_failure", Zero, "n1")),
     survived |-> survived,
     collapse_reason |-> IF survived THEN <<>> ELSE <<"FII reached 95.00% - inevitable failure">>,
     fii_after |-> IF survived THEN Pct(10) ELSE Pct(95),
     new_violations |-> <<>>,
     explanation |-> <<name>>]

\* a failure on the criticality bound, a failure just below it, a survival
JudgeCfResults ==
    { JudgeCfResult("critical failure", 70, FALSE),
      JudgeCfResult("minor failure", 69, FALSE),
      JudgeCfResult("survival", 90, TRUE) }

JudgeFIIs == {Zero, Pct(69), Pct(70), Pct(89), Pct(90), One}

SeqsUpTo(S, n) == UNION {[1..k -> S] : k \in 0..n}

InitJudge ==
    \E graph \in JudgeGraphs, vs \in SeqsUpTo(JudgeViolations, MaxViolations),
       f \in JudgeFIIs, cfs \in SeqsUpTo(JudgeCfResults, MaxCfResults) :
        /\ objs = Build(graph.nodes, graph.edges).objs
        /\ base = Build(graph.nodes, graph.edges).g
        /\ context = [k \in {} |-> 0]
        /\ scenarios = <<>>
        /\ sim = Idle
        /\ violations = vs
        /\ fii = f
        /\ cf_results = cfs
        /\ paths = <<>>
        /\ verdict = NoVerdict
        /\ op = Op("init", "none", <<>>)
        /\ calls = Len(graph.nodes) + Len(graph.edges)
        /\ analysis = NoResult

NextJudge == RenderVerdict

SpecJudge == InitJudge /\ [][NextJudge]_vars

----------------------------------------------------------------------------
(* The Judge's decision procedure *)

SomeFatal(vs) == \E i \in 1..Len(vs) : RGe(vs[i].severity, Pct(95))

\* C5: render_verdict on a violation list holding a violation of severity
\* >= 0.95 returns NOT_PERMISSIBLE with certainty 1 and a proof chain that
\* contains FATAL_VIOLATION, whatever the FII, the counterfactual results
\* and the graph.
C5_FatalWins ==
    [][ (op'.name = "render_verdict" /\ SomeFatal(violations)) =>
          /\ verdict'.verdict = "NOT_PERMISSIBLE"
          /\ verdict'.certainty = One
          /\ <<"FATAL_VIOLATION">> \in Range(verdict'.proof_chain) ]_vars

\* a fatal violation together with FII >= 0.9, two failed critical scenarios
\* and an empty graph: the fatal branch answered
C5_Witness ==
    /\ op.name = "render_verdict"
    /\ SomeFatal(violations)
    /\ ~RGe(violations[1].severity, Pct(95))
    /\ RGe(fii, Pct(90))
    /\ Len(cf_results) >= 2 /\ \A i \in 1..Len(cf_results) : ~cf_results[i].survived
    /\ base.nodeKeys = <<>>
    /\ <<"FATAL_VIOLATION">> \in Range(verdict.proof_chain)

\* the nodes from which `id` is reached along edges, `id` included
RECURSIVE AncestorsOf(_, _)
AncestorsOf(g, seen) ==
    LET more == seen \cup {g.edges[e].source : e \in {e \in DOMAIN g.edges : g.edges[e].target \in seen}}
    IN  IF more = seen THEN seen ELSE AncestorsOf(g, more)

Orphaned(h, g, id) == \A a \in AncestorsOf(g, {id}) : h[g.nodes[a]].type # "decision"

DataMissing(h, g) ==
    \/ \A id \in DOMAIN g.nodes : h[g.nodes[id]].type # "decision"
    \/ DOMAIN g.edges = {}
    \/ \E id \in DOMAIN g.nodes : h[g.nodes[id]].type = "behavior" /\ Orphaned(h, g, id)

CriticalFailures(cfs) ==
    Cardinality({i \in 1..Len(cfs) : ~cfs[i].survived /\ cfs[i].scenario.criticality >= 70})

\* the rule that answers when no violation is fatal: tag and certainty
FirstMatch(h, g, vs, f, cfs) ==
    IF RGe(f, Pct(90)) THEN <<"NOT_PERMISSIBLE", One, "INEVITABILITY_AXIOM_TRIGGERED">>
    ELSE IF CriticalFailures(cfs) >= 2 THEN <<"NOT_PERMISSIBLE", Pct(95), "COUNTERFACTUAL_VALIDITY_VIOLATED">>
    ELSE IF DataMissing(h, g) THEN <<"UNVERIFIED", Pct(50), "VERDICT_UNVERIFIED">>
    ELSE IF RGe(f, Pct(70)) \/ Len(vs) > 3 THEN <<"PERMISSIBLE", Pct(75), "VERDICT_PERMISSIBLE_FRAGILE">>
    ELSE <<"PERMISSIBLE", One, "VERDICT_PERMISSIBLE_ROBUST">>

RuleMarks ==
    {"FATAL_VIOLATION", "INEVITABILITY_AXIOM_TRIGGERED", "COUNTERFACTUAL_VALIDITY_VIOLATED",
     "VERDICT_UNVERIFIED", "VERDICT_PERMISSIBLE_FRAGILE", "VERDICT_PERMISSIBLE_ROBUST"}

----------------------------------------------------------------------------
(* SpecCore: one analysis of a built graph: verify_all, then                *)
(* FIICalculator.compute on the violations, then render_verdict; each step  *)
(* may be left out, and then the step after it sees the initial value.      *)

\* how far the analysis has come
Stage ==
    CASE op.name = "verify_all" -> 1
      [] op.name = "compute" -> 2
      [] op.name = "render_verdict" -> 3
      [] OTHER -> 0

Verify == Stage < 1 /\ VerifyAll
Score == Stage < 2 /\ ComputeFII
Judge == Stage < 3 /\ RenderVerdict

MaxConsumers == 3

name_C == <<"C">>

consumer(i, demand) ==
    Node(NodeId(i + 1), Tpl("decision", <<"D", ToString(i)>>, DefaultCriticality, demand))

\* a Resource R1 and Decisions D1 .. Dn that each require it
ResourceGraph(capacity, demand, n) ==
    [nodes |-> <<Node("n1", Tpl("resource", name_R1, DefaultCriticality, capacity))>>
               \o [i \in 1..n |-> consumer(i, demand)],
     edges |-> [i \in 1..n |-> Edge(EdgeId(i), NodeId(i + 1), "n1", Requires)]]

ResourceGraphs ==
    { ResourceGraph(capacity, demand, n) :
         capacity \in {NoMeta, [capacity |-> R(10, 1)]},
         demand \in {NoMeta, [resource_demand |-> R(8, 1)]},
         n \in 0..MaxConsumers }

\* three Decisions A, B, C and any of the Requires edges A->B, A->C, B->C, C->A
CyclePairs == << <<1, 2>>, <<1, 3>>, <<2, 3>>, <<3, 1>> >>

CycleGraphs ==
    { [nodes |-> <<Node("n1", Tpl("decision", name_A, DefaultCriticality, NoMeta)),
                   Node("n2", Tpl("decision", name_B, DefaultCriticality, NoMeta)),
                   Node("n3", Tpl("decision", name_C, DefaultCriticality, NoMeta))>>,
       edges |-> [n \in 1..Len(q) |->
                    Edge(EdgeId(n), NodeId(CyclePairs[q[n]][1]), NodeId(CyclePairs[q[n]][2]), Requires)]] :
         q \in RisingSeqs(Len(CyclePairs), Len(CyclePairs)) }

name_D1 == <<"D", "1">>
name_B1 == <<"B", "1">>

\* a Decision D1 and a Behavior B1, unconnected or joined by one Causes edge
EndToEndGraphs ==
    { [nodes |-> <<Node("n1", Tpl("decision", name_D1, DefaultCriticality, NoMeta)),
                   Node("n2", Tpl("behavior", name_B1, DefaultCriticality, NoMeta))>>,
       edges |-> edges] :
         edges \in {<<>>, <<Edge("e1", "n1", "n2", Causes)>>, <<Edge("e1", "n2", "n1", Causes)>>} }

InitCore ==
    \E graph \in ContradictionGraphs \cup ResourceGraphs \cup CycleGraphs \cup EndToEndGraphs :
        InitBuilt(graph.nodes, graph.edges)

NextCore ==
    \/ Verify
    \/ Score
    \/ Judge

SpecCore == InitCore /\ [][NextCore]_vars

----------------------------------------------------------------------------
(* The fatal bound *)

\* what verify_all can return for the graph and context of this state
Verifications == {verify_all(View(objs, base), context, ord) : ord \in Orders(base)}

ByAxiom(vs, axiom_name) == SelectSeq(vs, LAMBDA x : x.axiom_name = axiom_name)

\* the severities written on the Contradicts edges between two Decisions
DecisionConflicts ==
    {Get(base.edges[e].metadata, "severity", Pct(90)) :
        e \in {e \in DOMAIN base.edges :
                 /\ base.edges[e].type = "contradicts"
                 /\ objs[base.nodes[base.edges[e].source]].type = "decision"
                 /\ objs[base.nodes[base.edges[e].target]].type = "decision"}}

\* C7: a violation is fatal exactly when its severity is >= 0.95. On a graph
\* whose only contradiction is a Contradicts edge between two Decisions:
\* verify_all returns one ContradictionLaw violation carrying the severity of
\* the edge; the Judge, given that list, answers through the fatal rule
\* exactly when that severity is >= 0.95; and for severity exactly 0.95 the
\* verdict is NOT_PERMISSIBLE with certainty 1 and a primary reason that
\* names the ContradictionLaw axiom.
C7_FatalBoundIncluded ==
    \A sev \in DecisionConflicts :
        /\ op.name = "verify_all" =>
              /\ Len(ByAxiom(violations, "CONTRADICTION_LAW")) = 1
              /\ ByAxiom(violations, "CONTRADICTION_LAW")[1].severity = sev
        /\ (op.name = "render_verdict" /\ violations \in Verifications) =>
              /\ <<"FATAL_VIOLATION">> \in Range(verdict.proof_chain) <=> RGe(sev, Pct(95))
              /\ sev = Pct(95) =>
                    /\ verdict.verdict = "NOT_PERMISSIBLE"
                    /\ verdict.certainty = One
                    /\ verdict.primary_reason = <<"Fatal violation of ", "CONTRADICTION_LAW">>

\* the Judge answered on the violations of a graph whose Contradicts edge has
\* severity exactly 0.95
C7_Witness ==
    /\ op.name = "render_verdict"
    /\ DecisionConflicts = {Pct(95)}
    /\ violations \in Verifications
    /\ Len(violations) = 1 /\ violations[1].severity = Pct(95)
    /\ verdict.verdict = "NOT_PERMISSIBLE"

----------------------------------------------------------------------------
(* Reproducibility *)

Recomputed(ord) ==
    CASE op.name = "verify_all" ->
            verify_all(View(objs, base), context, ord) = violations
      [] op.name = "compute" ->
            compute(View(objs, base), violations, ord) = [fii |-> fii, collapse_paths |-> paths]
      [] op.name = "render_verdict" ->
            render_verdict(View(objs, base), violations, fii, cf_results, ord) = verdict
      [] OTHER -> TRUE

\* C8: the result of verify_all, of FIICalculator.compute (collapse paths and
\* FII) and of render_verdict is the one every other iteration order of the
\* adjacency buckets gives on the same inputs.
C8_Reproducible == \A ord \in Orders(base) : Recomputed(ord)

\* the contradictions that verify_all recorded in the ContradictionLaw evidence
Recorded ==
    LET found == ByAxiom(violations, "CONTRADICTION_LAW")
    IN  IF found = <<>> THEN {}
        ELSE {[pair |-> {c.node_a, c.node_b}, severity |-> c.severity, explanation |-> c.explanation] :
                 c \in Range(found[1].evidence.contradictions)}

\* the contradictions of a list, each as its pair of nodes, severity and explanation
NamedSet(cs) ==
    {[pair |-> {cs[i].name_a, cs[i].name_b}, severity |-> cs[i].severity,
      explanation |-> cs[i].explanation] : i \in 1..Len(cs)}

\* C9: the set of contradictions found (pair of nodes, severity, explanation)
\* does not depend on the order in which the incoming edges of a Resource
\* are enumerated: what find_contradictions returned inside verify_all is
\* what it returns under every other order.
C9_ContradictionSetStable ==
    op.name = "verify_all" =>
        \A ord \in Orders(base) :
            NamedSet(find_contradictions(View(objs, base), ord)) = Recorded

----------------------------------------------------------------------------
(* The oversubscribed resource *)

\* R1 with capacity 10 and exactly two Decisions of demand 8 requiring it,
\* default criticalities, nothing else in the graph
TwoOnTen ==
    /\ Len(base.nodeKeys) = 3 /\ Len(base.edgeKeys) = 2
    /\ \A id \in DOMAIN base.nodes : objs[base.nodes[id]].criticality = 50
    /\ \E r \in DOMAIN base.nodes :
          /\ objs[base.nodes[r]].type = "resource"
          /\ objs[base.nodes[r]].metadata = [capacity |-> R(10, 1)]
          /\ \A d \in DOMAIN base.nodes \ {r} :
                /\ objs[base.nodes[d]].type = "decision"
                /\ objs[base.nodes[d]].metadata = [resource_demand |-> R(8, 1)]
                /\ \E e \in DOMAIN base.edges :
                      /\ base.edges[e].source = d /\ base.edges[e].target = r
                      /\ base.edges[e].type = "requires"

ComputedOnTwoOnTen == op.name = "compute" /\ TwoOnTen /\ violations = <<>>

----------------------------------------------------------------------------
(* End to end: D1 -Causes-> B1 *)

\* the graph D1 -Causes-> B1 under the empty context
DecisionCausesBehavior ==
    /\ base.nodeKeys = <<"n1", "n2">> /\ base.edgeKeys = <<"e1">>
    /\ objs[base.nodes["n1"]].type = "decision" /\ objs[base.nodes["n1"]].name = name_D1
    /\ objs[base.nodes["n2"]].type = "behavior" /\ objs[base.nodes["n2"]].name = name_B1
    /\ base.edges["e1"] = Edge("e1", "n1", "n2", Causes)
    /\ \A id \in DOMAIN base.nodes :
          objs[base.nodes[id]].criticality = DefaultCriticality /\ objs[base.nodes[id]].metadata = NoMeta
    /\ DOMAIN context = {}

\* C11: on the graph D1 -Causes-> B1 with an empty context, verify_all returns
\* no violation, compute returns exactly 0.0 and finds no collapse path, and
\* the Judge, given no counterfactual result, answers PERMISSIBLE with
\* certainty 1.0 through the robust branch.
C11_EndToEndRobust ==
    DecisionCausesBehavior =>
        /\ op.name = "verify_all" => violations = <<>>
        /\ op.name = "compute" => fii = Zero /\ paths = <<>>
        /\ op.name = "render_verdict" =>
              /\ violations = <<>> /\ fii = Zero /\ cf_results = <<>>
              /\ verdict.verdict = "PERMISSIBLE"
              /\ verdict.certainty = One
              /\ verdict.proof_chain[Len(verdict.proof_chain)] = <<"VERDICT_PERMISSIBLE_ROBUST">>
              /\ verdict.failure_inevitability_index = Zero
              /\ verdict.counterfactual_failures = 0

C11_Witness ==
    /\ DecisionCausesBehavior
    /\ op.name = "render_verdict"
    /\ verdict.verdict = "PERMISSIBLE" /\ verdict.certainty = One

----------------------------------------------------------------------------
(* SpecExistence: verify_all on graphs of Decisions, Behaviors and          *)
(* Assumptions. Node i is one of the two kinds listed for its position; an  *)
(* edge is a loop or joins neighbouring nodes in either direction, as       *)
(* Requires when it goes back and as Causes otherwise. The context is empty *)
(* or carries every key the axioms read.                                    *)

MaxAncestryNodes == 3
MaxAncestryEdges == 2

tpl_other_decision == Tpl("decision", name_B, DefaultCriticality, NoMeta)

AncestryTemplates(i) ==
    CASE i = 1 -> {tpl_decision, tpl_assumption}
      [] i = 2 -> {tpl_behavior, tpl_assumption}
      [] OTHER -> {tpl_behavior, tpl_other_decision}

AncestryNodeSeqs ==
    UNION { {[i \in 1..k |-> Node(NodeId(i), f[i])] :
                f \in {f \in [1..k -> UNION {AncestryTemplates(i) : i \in 1..k}] :
                          \A i \in 1..k : f[i] \in AncestryTemplates(i)}} :
            k \in 0..MaxAncestryNodes }

AncestryEdge(nodes, n, p) ==
    LET i == PairSource(p, Len(nodes))
        j == PairTarget(p, Len(nodes))
    IN  Edge(EdgeId(n), nodes[i].id, nodes[j].id, IF j < i THEN Requires ELSE Causes)

AncestryEdgeSeqs(nodes) ==
    {[n \in 1..Len(q) |-> AncestryEdge(nodes, n, q[n])] :
        q \in {q \in RisingSeqs(Len(nodes) * Len(nodes), MaxAncestryEdges) :
                  \A n \in 1..Len(q) :
                     PairTarget(q[n], Len(nodes)) - PairSource(q[n], Len(nodes)) \in {-1, 0, 1}}}

\* entries of the lists the axioms read from the context
cf_entry(survived, criticality) == [survived |-> survived, scenario_criticality |-> criticality]
human_entry(spof) ==
    [identifier |-> <<"h">>, failure_scenario |-> <<"leaves">>] @@ spof
hostile_entry(failed) == [assumption |-> <<"a">>] @@ failed

\* a context in which every key is present and every context-driven axiom fires
FullContext ==
    [failure_inevitability_index |-> Pct(95),
     failure_paths |-> << <<"p">> >>,
     counterfactual_results |-> <<cf_entry(FALSE, 70)>>,
     human_dependencies |-> <<human_entry([is_single_point_of_failure |-> TRUE])>>,
     extracted_assumptions |-> << <<"a">> >>,
     hostile_assumptions |-> <<hostile_entry([stress_test_failed |-> TRUE])>>]

\* the caller's state once a graph was built and a context was collected
InitGiven(nodes, edges, ctx) ==
    /\ objs = Build(nodes, edges).objs
    /\ base = Build(nodes, edges).g
    /\ context = ctx
    /\ scenarios = <<>>
    /\ sim = Idle
    /\ violations = <<>>
    /\ fii = Zero
    /\ cf_results = <<>>
    /\ paths = <<>>
    /\ verdict = NoVerdict
    /\ op = Op("init", "none", <<>>)
    /\ calls = Len(nodes) + Len(edges)
    /\ analysis = NoResult

InitExistence ==
    \E nodes \in AncestryNodeSeqs : \E edges \in AncestryEdgeSeqs(nodes) :
        \E ctx \in {NoMeta, FullContext} : InitGiven(nodes, edges, ctx)

NextExistence == Verify

SpecExistence == InitExistence /\ [][NextExistence]_vars

\* the Behavior nodes no chain of edges connects to a Decision
OrphanedBehaviors ==
    {id \in DOMAIN base.nodes : objs[base.nodes[id]].type = "behavior" /\ Orphaned(objs, base, id)}

\* C12: the Existence axiom returns a violation, of severity 0.8, exactly when
\* some Behavior node has no decision ancestry; on a graph without Behavior
\* nodes it returns none, whatever the other nodes, the edges and the context.
C12_ExistenceFiresIffOrphan ==
    /\ \A ord \in Orders(base) :
          LET r == ExistenceAxiom_verify(View(objs, base), context, ord)
          IN  /\ r # <<>> <=> OrphanedBehaviors # {}
              /\ r # <<>> => Len(r) = 1 /\ r[1].severity = Pct(80)
                                 /\ Range(r[1].evidence.orphaned_behaviors) = OrphanedBehaviors
    /\ op.name = "verify_all" =>
          /\ ByAxiom(violations, "EXISTENCE_AXIOM") # <<>> <=> OrphanedBehaviors # {}
          /\ (\A id \in DOMAIN base.nodes : objs[base.nodes[id]].type # "behavior")
                => ByAxiom(violations, "EXISTENCE_AXIOM") = <<>>

\* a Behavior reached from a Decision through another Behavior, next to an
\* orphaned one on which the axiom fires
C12_Witness ==
    /\ op.name = "verify_all"
    /\ Len(ByAxiom(violations, "EXISTENCE_AXIOM")) = 1
    /\ Cardinality(OrphanedBehaviors) = 1
    /\ \E id \in DOMAIN base.nodes :
          /\ objs[base.nodes[id]].type = "behavior" /\ id \notin OrphanedBehaviors
    /\ DOMAIN context # {}

----------------------------------------------------------------------------
(* SpecAxioms: the analysis of a graph under a context. The context holds   *)
(* any subset of the keys the axioms read, with values on which the axioms  *)
(* that read them all fire, or all stay silent.                             *)

ContextKeys ==
    {"failure_inevitability_index", "failure_paths", "counterfactual_results",
     "human_dependencies", "extracted_assumptions", "hostile_assumptions"}

FiringValue(key) ==
    CASE key = "failure_inevitability_index" -> Pct(95)
      [] key = "failure_paths" -> << <<"p">> >>
      [] key = "counterfactual_results" -> <<cf_entry(FALSE, 70), cf_entry(TRUE, 90)>>
      [] key = "human_dependencies" -> <<human_entry([is_single_point_of_failure |-> TRUE])>>
      [] key = "extracted_assumptions" -> << <<"a">> >>
      [] key = "hostile_assumptions" -> <<hostile_entry([stress_test_failed |-> TRUE])>>

QuietValue(key) ==
    CASE key = "failure_inevitability_index" -> Pct(94)
      [] key = "failure_paths" -> <<>>
      [] key = "counterfactual_results" -> <<cf_entry(FALSE, 69), cf_entry(TRUE, 90)>>
      [] key = "human_dependencies" -> <<human_entry(NoMeta)>>
      [] key = "extracted_assumptions" -> <<>>
      [] key = "hostile_assumptions" -> <<hostile_entry([stress_test_failed |-> FALSE])>>

Contexts ==
    {[key \in keys |-> FiringValue(key)] : keys \in SUBSET ContextKeys}
        \cup {[key \in keys |-> QuietValue(key)] : keys \in SUBSET ContextKeys}

\* graphs without a Decision
UndecidedGraphs ==
    { [nodes |-> <<Node("n1", tpl_assumption)>>, edges |-> <<>>],
      [nodes |-> <<Node("n1", tpl_assumption), Node("n2", tpl_behavior)>>,
       edges |-> <<Edge("e1", "n1", "n2", Assumes)>>],
      [nodes |-> <<Node("n1", tpl_assumption), Node("n2", tpl_human)>>,
       edges |-> <<Edge("e1", "n1", "n2", Requires)>>] }

MaxExhausting == 2

\* a Resource of capacity 0 and its consumers
ExhaustedGraphs ==
    { ResourceGraph([capacity |-> Zero], demand, n) :
         demand \in {NoMeta, [resource_demand |-> R(8, 1)]}, n \in 0..MaxExhausting }

\* two Decisions in fatal contradiction and a Behavior nothing leads to
ConflictedOrphanGraphs ==
    { [nodes |-> <<Node("n1", Tpl("decision", name_A, DefaultCriticality, NoMeta)),
                   Node("n2", Tpl("decision", name_B, DefaultCriticality, NoMeta)),
                   Node("n3", tpl_behavior)>>,
       edges |-> <<Edge("e1", "n1", "n2", Contradicts(Pct(95)))>>] }

AxiomGraphs ==
    {[nodes |-> <<>>, edges |-> <<>>]} \cup EndToEndGraphs \cup ContradictionGraphs
        \cup ConflictedOrphanGraphs \cup UndecidedGraphs \cup ExhaustedGraphs

InitAxioms ==
    \E graph \in AxiomGraphs : \E ctx \in Contexts : InitGiven(graph.nodes, graph.edges, ctx)

NextAxioms ==
    \/ Verify
    \/ Score
    \/ Judge

SpecAxioms == InitAxioms /\ [][NextAxioms]_vars

----------------------------------------------------------------------------
(* The registry *)

AxiomOrder ==
    <<"EXISTENCE_AXIOM", "CONTRADICTION_LAW", "INEVITABILITY_AXIOM",
      "COUNTERFACTUAL_VALIDITY", "HUMAN_DEPENDENCY_PARADOX", "SILENT_ASSUMPTION_LAW">>

\* whether an axiom has cause to fire, read off the graph and the context
Fires(axiom_name) ==
    CASE axiom_name = "EXISTENCE_AXIOM" -> OrphanedBehaviors # {}
      [] axiom_name = "CONTRADICTION_LAW" ->
            \E ord \in Orders(base) : find_contradictions(View(objs, base), ord) # <<>>
      [] axiom_name = "INEVITABILITY_AXIOM" ->
            /\ "failure_inevitability_index" \in DOMAIN context
            /\ RGe(context["failure_inevitability_index"], Pct(95))
      [] axiom_name = "COUNTERFACTUAL_VALIDITY" ->
            /\ "counterfactual_results" \in DOMAIN context
            /\ \E i \in DOMAIN context["counterfactual_results"] :
                  /\ ~context["counterfactual_results"][i].survived
                  /\ context["counterfactual_results"][i].scenario_criticality >= 70
      [] axiom_name = "HUMAN_DEPENDENCY_PARADOX" ->
            /\ "human_dependencies" \in DOMAIN context
            /\ \E i \in DOMAIN context["human_dependencies"] :
                  LET h == context["human_dependencies"][i]
                  IN  "is_single_point_of_failure" \in DOMAIN h /\ h["is_single_point_of_failure"]
      [] axiom_name = "SILENT_ASSUMPTION_LAW" ->
            /\ "hostile_assumptions" \in DOMAIN context
            /\ \E i \in DOMAIN context["hostile_assumptions"] :
                  LET a == context["hostile_assumptions"][i]
                  IN  "stress_test_failed" \in DOMAIN a /\ a["stress_test_failed"]

Fired == SelectSeq(AxiomOrder, Fires)

AxiomNames(vs) == [i \in 1..Len(vs) |-> vs[i].axiom_name]

\* what an axiom reads: the graph, and these keys of the context
KeysRead(axiom_name) ==
    CASE axiom_name = "INEVITABILITY_AXIOM" -> {"failure_inevitability_index", "failure_paths"}
      [] axiom_name = "COUNTERFACTUAL_VALIDITY" -> {"counterfactual_results"}
      [] axiom_name = "HUMAN_DEPENDENCY_PARADOX" -> {"human_dependencies"}
      [] axiom_name = "SILENT_ASSUMPTION_LAW" -> {"extracted_assumptions", "hostile_assumptions"}
      [] OTHER -> {}

OwnContext(axiom_name) ==
    [key \in DOMAIN context \cap KeysRead(axiom_name) |-> context[key]]

\* C14: verify_all returns, in the order Existence, Contradiction,
\* Inevitability, CounterfactualValidity, HumanDependency, SilentAssumption,
\* one violation for each axiom that has cause to fire and nothing else; an
\* axiom answers the same when the keys the other axioms read are taken out of
\* the context; get_fatal_violations keeps, in that order, exactly the
\* violations of severity >= 0.95.
C14_RegistryOrder ==
    /\ op.name = "init" => \A vs \in Verifications :
          /\ AxiomNames(vs) = Fired
          /\ \A ord \in Orders(base) :
                vs = verify_all(View(objs, base), context, ord) =>
                   vs = ExistenceAxiom_verify(View(objs, base), OwnContext("EXISTENCE_AXIOM"), ord)
                        \o ContradictionLaw_verify(View(objs, base), OwnContext("CONTRADICTION_LAW"), ord)
                        \o InevitabilityAxiom_verify(View(objs, base), OwnContext("INEVITABILITY_AXIOM"), ord)
                        \o CounterfactualValidityAxiom_verify(View(objs, base), OwnContext("COUNTERFACTUAL_VALIDITY"), ord)
                        \o HumanDependencyParadox_verify(View(objs, base), OwnContext("HUMAN_DEPENDENCY_PARADOX"), ord)
                        \o SilentAssumptionLaw_verify(View(objs, base), OwnContext("SILENT_ASSUMPTION_LAW"), ord)
          /\ LET fatal == get_fatal_violations(vs)
                  kept == {i \in 1..Len(vs) : RGe(vs[i].severity, Pct(95))}
              IN  /\ Len(fatal) = Cardinality(kept)
                  /\ AxiomNames(fatal) = SelectSeq(AxiomNames(vs),
                                                   LAMBDA a : \E i \in kept : vs[i].axiom_name = a)
                  /\ \A i \in 1..Len(fatal) : fatal[i] \in Range(vs)
    /\ op.name = "verify_all" => AxiomNames(violations) = Fired

\* all six axioms fired at once, two of them fatally
C14_Witness ==
    /\ op.name = "verify_all"
    /\ AxiomNames(violations) = AxiomOrder
    /\ Len(get_fatal_violations(violations)) = 2
    /\ AxiomNames(get_fatal_violations(violations)) = <<"CONTRADICTION_LAW", "INEVITABILITY_AXIOM">>

----------------------------------------------------------------------------
(* Totality *)

\* the context with every absent key filled in as the empty list or 0
Defaulted(ctx) ==
    [key \in ContextKeys |->
        IF key \in DOMAIN ctx THEN ctx[key]
        ELSE IF key = "failure_inevitability_index" THEN Zero ELSE <<>>]

\* the Resource nodes of capacity 0 that some node requires
Unavailable ==
    {id \in DOMAIN base.nodes :
        /\ objs[base.nodes[id]].type = "resource"
        /\ Get(objs[base.nodes[id]].metadata, "capacity", Inf) = Zero
        /\ \E e \in DOMAIN base.edges : base.edges[e].target = id /\ base.edges[e].type = "requires"}

CountOf(type) == Cardinality({id \in DOMAIN base.nodes : objs[base.nodes[id]].type = type})

\* the structure adjustment of a graph without a Decision: the assumption
\* ratio is the number of Assumptions over 1
UndecidedStructure ==
    RAdd(RMul(R(Cardinality({id \in DOMAIN base.nodes : objs[base.nodes[id]].criticality >= 70}),
                Cardinality(DOMAIN base.nodes)), Pct(30)),
         RMul(RMin(One, R(CountOf("assumption"), 1)), Pct(20)))

----------------------------------------------------------------------------
(* The empty graph *)

NothingBuilt == base = EmptyGraph /\ DOMAIN objs = {}

\* C16: FIICalculator.compute on a graph without nodes and edges, given an
\* empty violation list, returns exactly 0.0: it finds no collapse path, and
\* the violation adjustment and the structure adjustment are both 0.
C16_EmptyGraphZero ==
    NothingBuilt =>
        /\ \A ord \in Orders(base) :
              /\ compute_raised(View(objs, base), <<>>, ord) = "none"
              /\ compute(View(objs, base), <<>>, ord) = [fii |-> Zero, collapse_paths |-> <<>>]
        /\ compute_violation_adjustment(<<>>) = Zero
        /\ compute_structure_adjustment(View(objs, base)) = Zero
        /\ (op.name = "compute" /\ violations = <<>>) =>
              op.raised = "none" /\ fii = Zero /\ paths = <<>>

C16_Witness ==
    /\ NothingBuilt
    /\ op.name = "compute" /\ op.raised = "none"
    /\ violations = <<>> /\ fii = Zero /\ paths = <<>>
    /\ DOMAIN context # {}

----------------------------------------------------------------------------
(* Engine *)

\* a finding as a rule reports it; one kind of finding carries no severity
Finding(severity) == [severity |-> severity, message |-> <<"m">>]
Unrated == [message |-> <<"m">>]

\* sum(1 for f in result.findings if f.get("severity") == severity)
severity_count(findings, severity) ==
    Len(SelectSeq(findings, LAMBDA f : Get(f, "severity", "None") = severity))

\* a finalisation that forgets the lower bound of the score
finalize_unclamped(r, rules_executed) ==
    LET critical_count == severity_count(r.findings, "CRITICAL")
        high_count == severity_count(r.findings, "HIGH")
        medium_count == severity_count(r.findings, "MEDIUM")
        low_count == severity_count(r.findings, "LOW")
        score_penalty == critical_count * 40 + high_count * 20 + medium_count * 10 + low_count * 5
        outcome == IF critical_count > 0 THEN <<"FAILED", "CRITICAL", One>>
                   ELSE IF high_count > 0 THEN <<"FAILED", "HIGH", Pct(95)>>
                   ELSE IF medium_count > 0 THEN <<"WARNING", "MEDIUM", Pct(85)>>
                   ELSE IF low_count > 0 THEN <<"PASSED", "LOW", Pct(90)>>
                   ELSE <<"PASSED", "NONE", One>>
    IN  [verdict |-> outcome[1], risk |-> outcome[2], confidence |-> outcome[3],
         score |-> 100 - score_penalty,
         findings |-> r.findings,
         metadata |-> [total_findings |-> Len(r.findings), critical |-> critical_count,
                       high |-> high_count, medium |-> medium_count, low |-> low_count,
                       rules_executed |-> rules_executed]]

\* Engine._finalize
finalize(r, rules_executed) ==
    LET critical_count == severity_count(r.findings, "CRITICAL")
        high_count == severity_count(r.findings, "HIGH")
        medium_count == severity_count(r.findings, "MEDIUM")
        low_count == severity_count(r.findings, "LOW")
        score_penalty == critical_count * 40 + high_count * 20 + medium_count * 10 + low_count * 5
        outcome == IF critical_count > 0 THEN <<"FAILED", "CRITICAL", One>>
                   ELSE IF high_count > 0 THEN <<"FAILED", "HIGH", Pct(95)>>
                   ELSE IF medium_count > 0 THEN <<"WARNING", "MEDIUM", Pct(85)>>
                   ELSE IF low_count > 0 THEN <<"PASSED", "LOW", Pct(90)>>
                   ELSE <<"PASSED", "NONE", One>>
    IN  [verdict |-> outcome[1], risk |-> outcome[2], confidence |-> outcome[3],
         score |-> IF 100 - score_penalty > 0 THEN 100 - score_penalty ELSE 0,
         findings |-> r.findings,
         metadata |-> [total_findings |-> Len(r.findings), critical |-> critical_count,
                       high |-> high_count, medium |-> medium_count, low |-> low_count,
                       rules_executed |-> rules_executed]]

MaxFindings == 4

Finalized == op.name = "_finalize"

\* result.add_finding(finding)
AddFinding(finding) ==
    /\ ~Finalized
    /\ Len(analysis.findings) < MaxFindings
    /\ analysis' = [analysis EXCEPT !.findings = Append(@, finding)]
    /\ op' = Op("add_finding", "none", <<finding>>)
    /\ UNCHANGED <<objs, base, context, scenarios, sim, violations, fii, cf_results, paths, verdict, calls>>

\* self._finalize(result), for an engine without rules
Finalize ==
    /\ ~Finalized
    /\ analysis' = finalize(analysis, 0)
    /\ op' = Op("_finalize", "none", <<>>)
    /\ UNCHANGED <<objs, base, context, scenarios, sim, violations, fii, cf_results, paths, verdict, calls>>

Findings == {Finding(s) : s \in {"CRITICAL", "HIGH", "MEDIUM", "LOW", "INFO"}} \cup {Unrated}

NextEngine ==
    \/ \E finding \in Findings : AddFinding(finding)
    \/ Finalize

SpecEngine == InitEmpty /\ [][NextEngine]_vars

Rated(severity) ==
    \E i \in 1..Len(analysis.findings) :
        "severity" \in DOMAIN analysis.findings[i] /\ analysis.findings[i].severity = severity

RatedCount(severity) ==
    Cardinality({i \in 1..Len(analysis.findings) :
                    "severity" \in DOMAIN analysis.findings[i] /\ analysis.findings[i].severity = severity})

Penalty == 40 * RatedCount("CRITICAL") + 20 * RatedCount("HIGH") + 10 * RatedCount("MEDIUM") + 5 * RatedCount("LOW")

----------------------------------------------------------------------------
(* Oversubscribed resources *)

ResourceIds == {id \in DOMAIN base.nodes : objs[base.nodes[id]].type = "resource"}

\* the Requires edges into a node, and what their sources demand in total
ConsumerEdges(id, ord) ==
    SelectSeq(get_incoming_edges(View(objs, base), ord, id), LAMBDA e : e.type = "requires")

Demand(id, ord) ==
    RSum([i \in 1..Len(ConsumerEdges(id, ord)) |->
            Get(objs[base.nodes[ConsumerEdges(id, ord)[i].source]].metadata, "resource_demand", One)])

\* the capacity of a Resource, unbounded when its metadata names none
CapacityOrUnbounded(id) == Get(objs[base.nodes[id]].metadata, "capacity", Inf)

\* C18: the oversubscription detector of find_contradictions reports a
\* Resource node, with severity 0.85, exactly when at least two Requires edges
\* enter it and the demands of their sources (1 by default) add up to more than
\* its capacity; a Resource without capacity metadata is unbounded and is
\* never reported.
C18_OversubscriptionRule ==
    \A id \in ResourceIds : \A ord \in Orders(base) :
        LET reported == resource_contradiction(View(objs, base), ord, objs[base.nodes[id]])
        IN  /\ reported # <<>> <=>
                  /\ Len(ConsumerEdges(id, ord)) >= 2
                  /\ RGt(Demand(id, ord), CapacityOrUnbounded(id))
            /\ reported # <<>> => Len(reported) = 1 /\ reported[1].severity = Pct(85)
            /\ "capacity" \notin DOMAIN objs[base.nodes[id]].metadata => reported = <<>>

\* C19: for every Resource node, _find_resource_exhaustion_paths emits a
\* resource-exhaustion path exactly when _find_resource_contradictions emits an
\* oversubscription contradiction for it.
C19_SameTrigger ==
    \A id \in ResourceIds : \A ord \in Orders(base) :
        resource_exhaustion_path(View(objs, base), ord, objs[base.nodes[id]]) # <<>>
            <=> resource_contradiction(View(objs, base), ord, objs[base.nodes[id]]) # <<>>

----------------------------------------------------------------------------
(* Survival of a scenario *)

FatalIn(r) == {i \in 1..Len(r.new_violations) : RGe(r.new_violations[i].severity, Pct(95))}

FirstFatal(r) == r.new_violations[CHOOSE i \in FatalIn(r) : \A j \in FatalIn(r) : i <= j]

\* C20: a tested scenario survived exactly when its mutated clone has no
\* violation of severity >= 0.95 and an FII below 0.9; the collapse reason of a
\* survivor is empty; otherwise it quotes the explanation of the first fatal
\* violation if there is one, and the FII if there is none.
C20_SurvivalRule ==
    \A k \in 1..Len(sim.results) :
        LET r == sim.results[k]
        IN  /\ r.survived <=> (FatalIn(r) = {} /\ RLt(r.fii_after, Pct(90)))
            /\ r.survived => r.collapse_reason = <<>>
            /\ (~r.survived /\ FatalIn(r) # {}) =>
                  r.collapse_reason = <<"Fatal axiom violation: ">> \o FirstFatal(r).explanation
            /\ (~r.survived /\ FatalIn(r) = {}) =>
                  r.collapse_reason = <<"FII reached ">> \o FmtPct2(r.fii_after)
                                          \o <<" - inevitable failure">>

\* a scenario that collapsed on a fatal violation, its reason quoting the
\* violation
C20_Witness ==
    /\ op.name = "test_scenario"
    /\ \E k \in 1..Len(sim.results) :
          /\ ~sim.results[k].survived
          /\ FatalIn(sim.results[k]) # {}
          /\ sim.results[k].collapse_reason
                = <<"Fatal axiom violation: ">> \o FirstFatal(sim.results[k]).explanation

\* a scenario that survived
SomeSurvived ==
    /\ op.name = "test_scenario"
    /\ \E k \in 1..Len(sim.results) :
          sim.results[k].survived /\ sim.results[k].collapse_reason = <<>>

\* a scenario that collapsed on its FII, no violation being fatal
SomeCollapsedOnFII ==
    /\ op.name = "test_scenario"
    /\ \E k \in 1..Len(sim.results) :
          ~sim.results[k].survived /\ FatalIn(sim.results[k]) = {}

\* ---------------------------------------------------------------------------
\* The floats of the probabilistic OR
\*
\* _compute_base_fii and _combine_factors compute on Python floats: IEEE 754
\* binary64 numbers, every operation rounded to the nearest representable
\* number, ties to the even one.  The certainties are never negative, and none
\* is near the largest or the smallest binary64 number.  A float is written
\* mant * 2^exp, mant an odd natural number (or zero) given by its binary
\* digits, least significant first: equal numbers are equal records.
\* ---------------------------------------------------------------------------

\* binary digits a binary64 number keeps
Precision == 53

\* the arithmetic on the digits is carried out on groups of LimbBits digits
LimbBits == 15
LimbBase == 2^LimbBits

BitAt(b, i) == IF i >= 1 /\ i <= Len(b) THEN b[i] ELSE 0
LimbAt(a, i) == IF i <= Len(a) THEN a[i] ELSE 0
Zeros(k) == [i \in 1..k |-> 0]

RECURSIVE Binary(_)
Binary(n) == IF n = 0 THEN <<>> ELSE <<n % 2>> \o Binary(n \div 2)

Ones(b) == {i \in 1..Len(b) : b[i] = 1}
TopBit(b) == IF Ones(b) = {} THEN 0 ELSE CHOOSE i \in Ones(b) : \A j \in Ones(b) : j <= i
LowBit(b) == IF Ones(b) = {} THEN 0 ELSE CHOOSE i \in Ones(b) : \A j \in Ones(b) : i <= j

RECURSIVE LimbValue(_, _, _)
LimbValue(b, from, t) ==
    IF t = LimbBits THEN 0 ELSE BitAt(b, from + t) * 2^t + LimbValue(b, from, t + 1)

ToLimbs(b) ==
    [j \in 1..((Len(b) + LimbBits - 1) \div LimbBits) |-> LimbValue(b, LimbBits * (j - 1) + 1, 0)]
FromLimbs(a) ==
    [i \in 1..(LimbBits * Len(a)) |->
        (a[(i - 1) \div LimbBits + 1] \div 2^((i - 1) % LimbBits)) % 2]

\* a + b on limbs
RECURSIVE LAdd(_, _, _, _, _)
LAdd(a, b, i, carry, acc) ==
    IF i > Len(a) /\ i > Len(b)
    THEN IF carry = 0 THEN acc ELSE Append(acc, carry)
    ELSE LAdd(a, b, i + 1, (LimbAt(a, i) + LimbAt(b, i) + carry) \div LimbBase,
              Append(acc, (LimbAt(a, i) + LimbAt(b, i) + carry) % LimbBase))

\* a - b on limbs, for a >= b
RECURSIVE LSub(_, _, _, _, _)
LSub(a, b, i, borrow, acc) ==
    IF i > Len(a) /\ i > Len(b)
    THEN IF borrow = 0 THEN acc ELSE <<"negative">>
    ELSE LSub(a, b, i + 1, IF LimbAt(a, i) - LimbAt(b, i) - borrow < 0 THEN 1 ELSE 0,
              Append(acc, (LimbAt(a, i) - LimbAt(b, i) - borrow + LimbBase) % LimbBase))

\* a * d on limbs, d one limb
RECURSIVE LScale(_, _, _, _, _)
LScale(a, d, i, carry, acc) ==
    IF i > Len(a)
    THEN IF carry = 0 THEN acc ELSE Append(acc, carry)
    ELSE LScale(a, d, i + 1, (a[i] * d + carry) \div LimbBase,
                Append(acc, (a[i] * d + carry) % LimbBase))

\* a * b on limbs
RECURSIVE LMul(_, _, _, _)
LMul(a, b, j, acc) ==
    IF j > Len(b) THEN acc
    ELSE LMul(a, b, j + 1, LAdd(acc, Zeros(j - 1) \o LScale(a, b[j], 1, 0, <<>>), 1, 0, <<>>))

Float(mant, exp) == [mant |-> mant, exp |-> exp]
FZero == Float(<<>>, 0)
FOne == Float(<<1>>, 0)

Normalise(b, exp) ==
    IF Ones(b) = {} THEN FZero
    ELSE Float(SubSeq(b, LowBit(b), TopBit(b)), exp + LowBit(b) - 1)

\* rounding to the nearest number of Precision digits, ties to even
Kept(b, n) == SubSeq(b, n - Precision + 1, n)
RoundsUp(b, s) == b[s] = 1 /\ (b[s + 1] = 1 \/ \E i \in 1..(s - 1) : b[i] = 1)
Incremented(b) == FromLimbs(LAdd(ToLimbs(b), <<1>>, 1, 0, <<>>))
RoundTop(b, exp, n) ==
    IF n <= Precision THEN Normalise(b, exp)
    ELSE IF RoundsUp(b, n - Precision)
         THEN Normalise(Incremented(Kept(b, n)), exp + n - Precision)
         ELSE Normalise(Kept(b, n), exp + n - Precision)
Round(b, exp) == RoundTop(b, exp, TopBit(b))

LesserExp(m, n) == IF m < n THEN m ELSE n
Aligned(x, e) == ToLimbs(Zeros(x.exp - e) \o x.mant)

\* x + y, x - y (for x >= y) and x * y of Python
FAdd(x, y) ==
    Round(FromLimbs(LAdd(Aligned(x, LesserExp(x.exp, y.exp)), Aligned(y, LesserExp(x.exp, y.exp)),
                         1, 0, <<>>)),
          LesserExp(x.exp, y.exp))
FSub(x, y) ==
    Round(FromLimbs(LSub(Aligned(x, LesserExp(x.exp, y.exp)), Aligned(y, LesserExp(x.exp, y.exp)),
                         1, 0, <<>>)),
          LesserExp(x.exp, y.exp))
FMul(x, y) == Round(FromLimbs(LMul(ToLimbs(x.mant), ToLimbs(y.mant), 1, <<>>)), x.exp + y.exp)

\* 2^j modulo d
RECURSIVE PowMod(_, _)
PowMod(j, d) ==
    IF j = 0 THEN 1 % d
    ELSE IF j % 2 = 0 THEN (PowMod(j \div 2, d) * PowMod(j \div 2, d)) % d
         ELSE (2 * PowMod(j - 1, d)) % d

\* the fraction k / d < 1 to n binary places, least significant first, below
\* them a digit that tells whether anything was cut off
Places(k, d, n) ==
    <<IF (k * PowMod(n, d)) % d = 0 THEN 0 ELSE 1>>
    \o [i \in 1..n |-> (2 * ((k * PowMod(n - i, d)) % d)) \div d]

\* the float Python reads from the decimal literal of k / d
PlacesFor(d) == Precision + Len(Binary(d)) + 2
FromRatio(k, d) ==
    Round(Places(k % d, d, PlacesFor(d)) \o Binary(k \div d), 0 - PlacesFor(d) - 1)

\* combined + certainty - (combined * certainty), as Python evaluates it
FloatOr(combined, certainty) == FSub(FAdd(combined, certainty), FMul(combined, certainty))

RECURSIVE FloatFoldOr(_, _)
FloatFoldOr(combined, ps) ==
    IF ps = <<>> THEN combined
    ELSE FloatFoldOr(FloatOr(combined, Head(ps).certainty), Tail(ps))

\* _compute_base_fii on floats
compute_base_fii_float(collapse_paths) ==
    IF collapse_paths = <<>> THEN FZero ELSE FloatFoldOr(FZero, collapse_paths)

\* _combine_factors on floats
combine_factors_float(b, vadj, sadj) == FloatOr(FloatOr(b, vadj), sadj)

\* the certainties tried: 0.0, 0.1, .. 1.0
OrGrid == 10
Certainties == {FromRatio(k, OrGrid) : k \in 0..OrGrid}

Certain(certainty) == [certainty |-> certainty]

InitOr ==
    /\ \E p \in Certainties : \E q \in Certainties : paths = <<Certain(p), Certain(q)>>
    /\ objs = [a \in {} |-> 0]
    /\ base = EmptyGraph
    /\ context = [k \in {} |-> 0]
    /\ scenarios = <<>>
    /\ sim = Idle
    /\ violations = <<>>
    /\ fii = FZero
    /\ cf_results = <<>>
    /\ verdict = NoVerdict
    /\ op = Op("init", "none", <<>>)
    /\ calls = 0
    /\ analysis = NoResult

\* _compute_base_fii over the two collapse paths
ComputeBaseFII ==
    /\ op.name = "init"
    /\ fii' = compute_base_fii_float(paths)
    /\ op' = Op("_compute_base_fii", "none", <<>>)
    /\ UNCHANGED <<objs, base, context, scenarios, sim, violations, cf_results, paths, verdict,
                   calls, analysis>>

\* _combine_factors(base, violations, 0.0) on the two certainties
CombineFactors ==
    /\ op.name = "init"
    /\ fii' = combine_factors_float(paths[1].certainty, paths[2].certainty, FZero)
    /\ op' = Op("_combine_factors", "none", <<>>)
    /\ UNCHANGED <<objs, base, context, scenarios, sim, violations, cf_results, paths, verdict,
                   calls, analysis>>

NextOr == ComputeBaseFII \/ CombineFactors

SpecOr == InitOr /\ [][NextOr]_vars

Combined == op.name \in {"_compute_base_fii", "_combine_factors"}

\* the other order of the two certainties gives the same float
OrCommutes ==
    /\ op.name = "_compute_base_fii" => fii = compute_base_fii_float(<<paths[2], paths[1]>>)
    /\ op.name = "_combine_factors"
         => fii = combine_factors_float(paths[2].certainty, paths[1].certainty, FZero)

\* a certainty combined with 0.0 comes back unchanged
OrZeroIdentity ==
    /\ (Combined /\ paths[2].certainty = FZero) => fii = paths[1].certainty
    /\ (Combined /\ paths[1].certainty = FZero) => fii = paths[2].certainty

\* a certainty combined with 1.0 gives 1.0
OrOneAbsorbs ==
    (Combined /\ (paths[1].certainty = FOne \/ paths[2].certainty = FOne)) => fii = FOne

\* C13: the probabilistic OR of _compute_base_fii and _combine_factors is
\* commutative, returns p when p is combined with 0, and returns 1 when p is
\* combined with 1, for all certainties in [0, 1].
C13_OrLaws == OrCommutes /\ OrZeroIdentity /\ OrOneAbsorbs

\* 0.9 combined with 1.0: the result is the float just below 1.0
C13_JustBelowOne ==
    /\ op.name = "_combine_factors"
    /\ paths[1].certainty = FromRatio(9, 10)
    /\ paths[2].certainty = FOne
    /\ FAdd(fii, Float(<<1>>, 0 - Precision)) = FOne
    /\ fii # FOne

----------------------------------------------------------------------------
(* The standard scenarios *)

\* Graphs without edges of up to MaxScenarioNodes nodes: Decisions on the
\* critical threshold, engineers above it, humans just below it, other
\* Resources and Assumptions, in every order.

MaxScenarioNodes == 4

name_Engineer == <<"E", "n", "g", "i", "n", "e", "e", "r">>

tpl_on_threshold == Tpl("decision", name_D, 80, NoMeta)
tpl_engineer == Tpl("resource", name_Engineer, 90, NoMeta)
tpl_below_threshold == Tpl("resource", name_human, 79, NoMeta)

ScenarioTemplates == {tpl_on_threshold, tpl_engineer, tpl_below_threshold, tpl_cpu, tpl_assumption}

ScenarioNodeSeqs ==
    UNION { {[i \in 1..k |-> Node(NodeId(i), f[i])] : f \in [1..k -> ScenarioTemplates]} :
            k \in 0..MaxScenarioNodes }

InitScenarios == \E nodes \in ScenarioNodeSeqs : InitBuilt(nodes, <<>>)

NextScenarios == GenerateStandardScenarios

SpecScenarios == InitScenarios /\ [][NextScenarios]_vars

\* the nodes of the base graph in insertion order, and those a scenario is made for
BaseNodes == [i \in 1..Len(base.nodeKeys) |-> objs[base.nodes[base.nodeKeys[i]]]]
CriticalNodes == SelectSeq(BaseNodes, LAMBDA n : n.criticality >= 80)
HumanResources ==
    SelectSeq(BaseNodes, LAMBDA n : /\ n.type = "resource"
                                    /\ Contains(n.name, kw_human) \/ Contains(n.name, kw_engineer))
AssumptionNodes == SelectSeq(BaseNodes, LAMBDA n : n.type = "assumption")

AtMost(limit, n) == IF n < limit THEN n ELSE limit

Generated == op.name = "generate_standard_scenarios"

\* the scenario at position i has this type, criticality and captured node
ScenarioIs(i, type, criticality, kind, node) ==
    /\ scenarios[i].scenario_type = type
    /\ scenarios[i].criticality = criticality
    /\ Len(scenarios[i].modifications) = 1
    /\ scenarios[i].modifications[1].kind = kind
    /\ scenarios[i].modifications[1].node_id = node.id

\* C21: generate_standard_scenarios leaves, in this order, exactly the two
\* traffic spikes (x1.5 with criticality 0.7, x3.0 with criticality 0.8), a
\* node failure (0.9) for each of the first min(3, k) nodes of criticality
\* >= 0.8, a human-unavailable scenario (0.85) for each of the first min(2, h)
\* Resources named human or engineer, and an assumption-violated scenario
\* (0.75) for each of the first min(3, a) Assumptions; a later call on the same
\* graph leaves the same list.
C21_StandardScenarios ==
    Generated =>
        /\ Len(scenarios) = 2 + AtMost(3, Len(CriticalNodes)) + AtMost(2, Len(HumanResources))
                              + AtMost(3, Len(AssumptionNodes))
        /\ scenarios[1].scenario_type = "traffic_spike" /\ scenarios[1].criticality = 70
        /\ scenarios[1].modifications = <<Modification("traffic_spike", R(3, 2), "")>>
        /\ scenarios[2].scenario_type = "traffic_spike" /\ scenarios[2].criticality = 80
        /\ scenarios[2].modifications = <<Modification("traffic_spike", R(3, 1), "")>>
        /\ \A i \in 1..AtMost(3, Len(CriticalNodes)) :
              ScenarioIs(2 + i, "node_failure", 90, "node_failure", CriticalNodes[i])
        /\ \A i \in 1..AtMost(2, Len(HumanResources)) :
              ScenarioIs(2 + AtMost(3, Len(CriticalNodes)) + i,
                         "human_unavailable", 85, "remove_resource", HumanResources[i])
        /\ \A i \in 1..AtMost(3, Len(AssumptionNodes)) :
              ScenarioIs(2 + AtMost(3, Len(CriticalNodes)) + AtMost(2, Len(HumanResources)) + i,
                         "assumption_violated", 75, "violate_assumption", AssumptionNodes[i])

\* four engineers: more critical nodes than three and more humans than two
C21_Witness ==
    /\ Generated
    /\ Len(CriticalNodes) > 3 /\ Len(HumanResources) > 2
    /\ Len(scenarios) = 7

\* four Assumptions, three scenarios for them
ManyAssumptions == Generated /\ Len(AssumptionNodes) > 3 /\ Len(scenarios) = 5

----------------------------------------------------------------------------
(* The traffic spike *)

\* A Decision with or without a resource_demand, a Resource named Cpu and a
\* Resource named Memory or Human; up to MaxSpikeEdges Requires edges from the
\* Decision to either Resource or from the third node to the Cpu, parallel
\* edges included.

MaxSpikeEdges == 2

name_Memory == <<"M", "e", "m", "o", "r", "y">>
tpl_memory == Tpl("resource", name_Memory, DefaultCriticality, [capacity |-> R(10, 1)])
tpl_no_demand == Tpl("decision", name_D, DefaultCriticality, NoMeta)

SpikeEnds == {<<"n1", "n2">>, <<"n1", "n3">>, <<"n3", "n2">>}

SpikeEdgeSeqs ==
    UNION { {[n \in 1..k |-> Edge(EdgeId(n), q[n][1], q[n][2], Requires)] :
                q \in [1..k -> SpikeEnds]} : k \in 0..MaxSpikeEdges }

InitSpike ==
    \E d \in {tpl_decision, tpl_no_demand} : \E r \in {tpl_memory, tpl_human} :
       \E edges \in SpikeEdgeSeqs :
          InitBuilt(<<Node("n1", d), Node("n2", tpl_cpu), Node("n3", r)>>, edges)

SpecSpike == InitSpike /\ [][NextSim]_vars

\* the scenario tested last was a traffic spike
Spiked == op.name = "test_scenario" /\ op.arg[1].scenario_type = "traffic_spike"
Multiplier == op.arg[1].modifications[1].multiplier
Spike == sim.clones[Len(sim.clones)]

\* id is the source of an incoming edge of a Resource of the clone named cpu or memory
LoadsResource(id) ==
    \E e \in DOMAIN Spike.edges :
       /\ Spike.edges[e].source = id
       /\ LET target == objs[Spike.nodes[Spike.edges[e].target]]
          IN  /\ target.type = "resource"
              /\ Contains(target.name, kw_cpu) \/ Contains(target.name, kw_memory)

MetaBefore(id) == objs[base.nodes[id]].metadata
MetaAfter(id) == objs[Spike.nodes[id]].metadata

\* a demand that is there is multiplied exactly once
SpikedOnce ==
    Spiked =>
        \A id \in DOMAIN Spike.nodes :
           (LoadsResource(id) /\ "resource_demand" \in DOMAIN MetaBefore(id))
              => /\ "resource_demand" \in DOMAIN MetaAfter(id)
                 /\ MetaAfter(id)["resource_demand"]
                       = RMul(MetaBefore(id)["resource_demand"], Multiplier)

\* a demand that is not there counts as 1 and is multiplied as well
SpikedFromDefault ==
    Spiked =>
        \A id \in DOMAIN Spike.nodes :
           (LoadsResource(id) /\ "resource_demand" \notin DOMAIN MetaBefore(id))
              => Get(MetaAfter(id), "resource_demand", One) = RMul(One, Multiplier)

\* the nodes that load no such Resource keep their metadata
OthersKeepDemand ==
    Spiked =>
        \A id \in DOMAIN Spike.nodes : ~LoadsResource(id) => MetaAfter(id) = MetaBefore(id)

\* C22: after the traffic spike of multiplier m on a clone, every source of an
\* incoming edge of a Resource named cpu or memory has its earlier
\* resource_demand (1 when the key is absent) multiplied by m exactly once,
\* several edges to such Resources or not, and every other node keeps its
\* resource_demand.
C22_SpikeMultipliesOnce == SpikedOnce /\ SpikedFromDefault /\ OthersKeepDemand

----------------------------------------------------------------------------
(* The fatal verdict *)

FatalAt == {i \in 1..Len(violations) : RGe(violations[i].severity, Pct(95))}
Decisive == violations[CHOOSE i \in FatalAt : \A j \in FatalAt : i <= j]
AxiomRank(axiom_name) == CHOOSE i \in 1..Len(AxiomOrder) : AxiomOrder[i] = axiom_name

JudgedFatal == op.name = "render_verdict" /\ FatalAt # {}

\* the verdict is built from the first fatal violation in axiom order
BuiltFromFirstFatal ==
    /\ \A i \in FatalAt : AxiomRank(Decisive.axiom_name) <= AxiomRank(violations[i].axiom_name)
    /\ verdict.verdict = "NOT_PERMISSIBLE"
    /\ verdict.certainty = One
    /\ verdict.supporting_evidence[1] = Decisive.explanation
    /\ verdict.supporting_evidence[2] = <<"Severity: ">> \o FmtPct2(Decisive.severity)
    /\ verdict.proof_chain[2] = <<Decisive.axiom_name>>

\* C23 as stated: the primary reason of the fatal verdict is the explanation
\* of the first fatal violation
C23_AsStated ==
    JudgedFatal => BuiltFromFirstFatal /\ verdict.primary_reason = Decisive.explanation

\* C23: in the fatal-violation branch the verdict is built from the first
\* fatal violation in axiom order; its primary reason is "Fatal violation of"
\* followed by the name of that violation's axiom, and the violation's
\* explanation is the first entry of the supporting evidence.
C23_Amended ==
    JudgedFatal =>
        /\ BuiltFromFirstFatal
        /\ verdict.primary_reason = <<"Fatal violation of ", Decisive.axiom_name>>

\* two fatal violations of different axioms, the verdict naming the first
C23_Witness ==
    /\ JudgedFatal
    /\ \E i \in FatalAt : violations[i].axiom_name # Decisive.axiom_name
    /\ verdict.primary_reason = <<"Fatal violation of ", "CONTRADICTION_LAW">>
    /\ verdict.supporting_evidence[1] = Decisive.explanation

----------------------------------------------------------------------------
(* has_decision_ancestry on any node *)

\* graph.has_decision_ancestry(node) for a node of the graph
HasDecisionAncestry ==
    /\ sim.i = 0
    /\ \E id \in DOMAIN base.nodes : \E ord \in Orders(base) :
          op' = Op("has_decision_ancestry", "none",
                   <<[node_id |-> id,
                      returned |-> has_decision_ancestry(View(objs, base), ord,
                                                         View(objs, base).nodes[id])]>>)
    /\ UNCHANGED <<objs, base, context, scenarios, sim, violations, fii, cf_results, paths, verdict,
                   calls, analysis>>

InitAncestry ==
    \E nodes \in AncestryNodeSeqs : \E edges \in AncestryEdgeSeqs(nodes) : InitBuilt(nodes, edges)

NextAncestry == HasDecisionAncestry

SpecAncestry == InitAncestry /\ [][NextAncestry]_vars

AncestryAsked == op.name = "has_decision_ancestry"

\* C24: has_decision_ancestry(n) returns on every graph, cyclic ones included;
\* it returns true exactly when a Decision is reached from n by following
\* incoming edges backwards zero or more times, n itself counting; the graph
\* is the same after the call.
C24_AncestryIsReachability ==
    [][ op'.name = "has_decision_ancestry" =>
          /\ op'.arg[1].returned
                = (\E a \in AncestorsOf(base, {op'.arg[1].node_id}) :
                      objs[base.nodes[a]].type = "decision")
          /\ base' = base /\ objs' = objs ]_vars

\* a node on a cycle of ancestors without a Decision: the search ends with false
C24_Witness ==
    /\ AncestryAsked
    /\ ~op.arg[1].returned
    /\ \E e \in DOMAIN base.edges :
          /\ base.edges[e].target = op.arg[1].node_id
          /\ op.arg[1].node_id \in AncestorsOf(base, {base.edges[e].source})

\* a Decision found behind a cycle
FoundBehindCycle ==
    /\ AncestryAsked
    /\ op.arg[1].returned
    /\ objs[base.nodes[op.arg[1].node_id]].type # "decision"
    /\ \E e \in DOMAIN base.edges :
          /\ base.edges[e].target = op.arg[1].node_id
          /\ op.arg[1].node_id \in AncestorsOf(base, {base.edges[e].source})

----------------------------------------------------------------------------
(* Deadlock paths *)

\* Three Decisions and up to MaxDeadlockEdges edges between them: a Requires
\* edge between any two nodes or as a loop, a DependsOn edge backwards, a
\* Causes edge backwards or as a loop.

MaxDeadlockEdges == 3

DeadlockNodes ==
    <<Node("n1", Tpl("decision", name_A, DefaultCriticality, NoMeta)),
      Node("n2", Tpl("decision", name_B, DefaultCriticality, NoMeta)),
      Node("n3", Tpl("decision", name_C, DefaultCriticality, NoMeta))>>

DeadlockKinds(i, j) ==
    IF j < i THEN <<Requires, DependsOn, Causes>>
    ELSE IF j = i THEN <<Requires, Causes>>
    ELSE <<Requires>>

\* the edges one may draw, in a fixed order
DeadlockEnds ==
    Concat([p \in 1..(Len(DeadlockNodes) * Len(DeadlockNodes)) |->
              LET i == PairSource(p, Len(DeadlockNodes))
                  j == PairTarget(p, Len(DeadlockNodes))
              IN  [k \in 1..Len(DeadlockKinds(i, j)) |-> <<i, j, DeadlockKinds(i, j)[k]>>]])

DeadlockEdgeSeqs ==
    {[n \in 1..Len(q) |->
        Edge(EdgeId(n), NodeId(DeadlockEnds[q[n]][1]), NodeId(DeadlockEnds[q[n]][2]),
             DeadlockEnds[q[n]][3])] :
       q \in RisingSeqs(Len(DeadlockEnds), MaxDeadlockEdges)}

InitDeadlock == \E edges \in DeadlockEdgeSeqs : InitBuilt(DeadlockNodes, edges)

\* FIICalculator(graph, [])._find_deadlock_paths()
FindDeadlockPaths ==
    /\ sim.i = 0
    /\ \E ord \in Orders(base) : paths' = find_deadlock_paths(View(objs, base), ord)
    /\ op' = Op("_find_deadlock_paths", "none", <<>>)
    /\ UNCHANGED <<objs, base, context, scenarios, sim, violations, fii, cf_results, verdict,
                   calls, analysis>>

NextDeadlock == FindDeadlockPaths

SpecDeadlock == InitDeadlock /\ [][NextDeadlock]_vars

DeadlocksSought == op.name = "_find_deadlock_paths"

\* the Requires and DependsOn edges
Dependencies == {e \in DOMAIN base.edges : base.edges[e].type \in {"requires", "depends_on"}}

\* the nodes reached from `seen` along Requires and DependsOn edges, `seen` included
RECURSIVE DependedOn(_)
DependedOn(seen) ==
    LET more == seen \cup {base.edges[e].target : e \in {e \in Dependencies : base.edges[e].source \in seen}}
    IN  IF more = seen THEN seen ELSE DependedOn(more)

CyclePresent == \E e \in Dependencies : base.edges[e].source \in DependedOn({base.edges[e].target})

Depends(a, b) == \E e \in Dependencies : base.edges[e].source = a /\ base.edges[e].target = b

\* the recorded sequence is a directed cycle of Requires and DependsOn edges
GenuineCycle(nodes) ==
    /\ nodes # <<>>
    /\ \A i \in 1..Len(nodes) : Depends(nodes[i][1], nodes[(i % Len(nodes)) + 1][1])

\* C25: every Deadlock path _find_deadlock_paths records is a directed cycle
\* of the graph: each node of the sequence and the next, and the last and the
\* first, are joined by a Requires or DependsOn edge, whatever the graph and
\* the root, roots visited after an earlier cycle was found included.
C25_DeadlocksAreCycles ==
    DeadlocksSought => \A i \in 1..Len(paths) : GenuineCycle(paths[i].nodes)

\* C26: _find_deadlock_paths returns at least one Deadlock path exactly when
\* the Requires and DependsOn edges hold a directed cycle, loops included; on
\* an acyclic sub-graph it returns none.
C26_DeadlockIffCycle ==
    DeadlocksSought =>
        /\ paths # <<>> <=> CyclePresent
        /\ \A i \in 1..Len(paths) : paths[i].path_type = "deadlock"

\* a cycle that the first root does not reach, next to a cycle of Causes edges
C26_Witness ==
    /\ DeadlocksSought
    /\ paths # <<>>
    /\ "n1" \notin DependedOn({"n2", "n3"}) /\ DependedOn({"n1"}) = {"n1"}
    /\ \E e \in DOMAIN base.edges : base.edges[e].type = "causes"

\* a cycle of Causes edges only: no Deadlock path
CausesCycleOnly ==
    /\ DeadlocksSought
    /\ paths = <<>>
    /\ \E e \in DOMAIN base.edges : \E f \in DOMAIN base.edges :
          /\ base.edges[e].type = "causes" /\ base.edges[f].type # "requires"
          /\ base.edges[e].source = base.edges[f].target
          /\ base.edges[f].source = base.edges[e].target

----------------------------------------------------------------------------
(* The Unverified verdict *)

\* the Judge on a built graph, with no violation, an FII of 0.0 and no
\* counterfactual result
SpecUnverified == InitAncestry /\ [][NextJudge]_vars

Unverified == op.name = "render_verdict" /\ verdict.verdict = "UNVERIFIED"

\* C27: whenever the Judge returns the Unverified verdict, the list of missing
\* categories in its evidence and in its proof chain is not empty: it names
\* at least one of decisions, behaviors, causal relationships or assumptions.
C27_UnverifiedNamesMissing ==
    Unverified =>
        /\ identify_missing_data(View(objs, base)) # <<>>
        /\ verdict.supporting_evidence[1] # <<"Missing: ">>
        /\ verdict.proof_chain[3] # <<"missing=[", "]">>

\* Unverified with a category named
SomethingMissing == Unverified /\ verdict.supporting_evidence[1] # <<"Missing: ">>

----------------------------------------------------------------------------
(* The two nodes of a Contradiction *)

MaxContradictionEdges == 2

name_HA == <<"H", "i", "g", "h", "l", "y", " ", "a", "v", "a", "i", "l", "a", "b", "l", "e">>
name_Single == <<"S", "i", "n", "g", "l", "e", " ", "D", "B">>
name_HASingle == name_HA \o <<" ", "s", "i", "n", "g", "l", "e", " ", "D", "B">>
name_Stateless == <<"S", "t", "a", "t", "e", "l", "e", "s", "s">>
name_Stateful == <<"S", "t", "a", "t", "e", "f", "u", "l">>

Demanding(name) == Tpl("decision", name, DefaultCriticality, [resource_demand |-> R(8, 1)])

\* two Decisions and the Resource Cpu of capacity 10
DistinctnessNodeSeqs ==
    { <<Node("n1", Demanding(first)), Node("n2", Demanding(second)), Node("n3", tpl_cpu)>> :
        first \in {name_HA, name_HASingle, name_Stateless},
        second \in {name_Single, name_Stateful} }

DistinctnessKinds == {Requires, ContradictsDefault}

DistinctnessEnds == {<<i, j>> : i \in {"n1", "n2", "n3"}, j \in {"n1", "n2", "n3"}}

DistinctnessEdgeSeqs ==
    UNION { {[n \in 1..k |-> Edge(EdgeId(n), q[n][1], q[n][2], kinds[n])] :
                q \in [1..k -> DistinctnessEnds], kinds \in [1..k -> DistinctnessKinds]} :
            k \in 0..MaxContradictionEdges }

InitDistinctness ==
    \E nodes \in DistinctnessNodeSeqs : \E edges \in DistinctnessEdgeSeqs : InitBuilt(nodes, edges)

\* RealityGraph.find_contradictions called on the built graph
FindContradictions ==
    /\ sim.i = 0
    /\ \E ord \in Orders(base) :
          op' = Op("find_contradictions", "none", find_contradictions(View(objs, base), ord))
    /\ UNCHANGED <<objs, base, context, scenarios, sim, violations, fii, cf_results, paths, verdict, calls, analysis>>

NextDistinctness == FindContradictions

SpecDistinctness == InitDistinctness /\ [][NextDistinctness]_vars

ContradictionsFound == op.name = "find_contradictions" /\ op.arg # <<>>

\* C28: every Contradiction that find_contradictions returns relates two
\* distinct nodes: node_a is never the same node as node_b.
C28_ContradictionsRelateDistinctNodes ==
    op.name = "find_contradictions" =>
        \A i \in 1..Len(op.arg) : op.arg[i].node_a # op.arg[i].node_b

\* the same, for the Stateless / stateful pattern alone
StatelessRelatesDistinctNodes ==
    op.name = "find_contradictions" =>
        \A i \in 1..Len(op.arg) :
            op.arg[i].severity = StatelessSeverity => op.arg[i].node_a # op.arg[i].node_b

StatelessFound ==
    /\ op.name = "find_contradictions"
    /\ \E i \in 1..Len(op.arg) : op.arg[i].severity = StatelessSeverity

----------------------------------------------------------------------------
(* A contradiction in the mutated clone *)

MaxCollapseEdges == 2

SevereContradiction == Pct(70)

tpl_stateless == Tpl("decision", name_Stateless, DefaultCriticality, [resource_demand |-> R(8, 1)])
tpl_stateful == Tpl("decision", name_Stateful, 90, [resource_demand |-> R(8, 1)])

\* an Assumption or a Decision, a Decision, and the Resource Cpu of capacity 10
CollapseNodeSeqs ==
    { <<Node("n1", first), Node("n2", second), Node("n3", tpl_cpu)>> :
        first \in {tpl_assumption, tpl_stateless}, second \in {tpl_stateful, tpl_decision} }

\* the p-th edge a graph may have: what leaves n1 is an Assumes edge when n1 is
\* the Assumption and a Requires edge otherwise; the last is an explicit
\* contradiction of severity 0.7
CollapseEdge(nodes, n, p) ==
    LET leaves == IF nodes[1].type = "assumption" THEN Assumes ELSE Requires
    IN  CASE p = 1 -> Edge(EdgeId(n), "n1", "n2", leaves)
          [] p = 2 -> Edge(EdgeId(n), "n1", "n3", leaves)
          [] p = 3 -> Edge(EdgeId(n), "n2", "n3", Requires)
          [] OTHER -> Edge(EdgeId(n), "n2", "n1", Contradicts(SevereContradiction))

CollapseEdgeSeqs(nodes) ==
    {[n \in 1..Len(q) |-> CollapseEdge(nodes, n, q[n])] : q \in RisingSeqs(4, MaxCollapseEdges)}

InitCollapse ==
    \E nodes \in CollapseNodeSeqs : \E edges \in CollapseEdgeSeqs(nodes) : InitBuilt(nodes, edges)

SpecCollapse == InitCollapse /\ [][NextSim]_vars

\* the severities of the contradictions of the i-th mutated clone
CloneSeverities(i) ==
    UNION { {c.severity : c \in Range(find_contradictions(View(objs, sim.clones[i]), ord))} :
            ord \in Orders(sim.clones[i]) }

Severe(i) == \E sev \in CloneSeverities(i) : RGe(sev, SevereContradiction)

\* the i-th scenario violates an Assumption that has an outgoing Assumes edge
ViolatesAssumed(i) ==
    /\ sim.results[i].scenario.scenario_type = "assumption_violated"
    /\ \E e \in Range(EdgeList(View(objs, base))) :
          /\ e.type = "assumes"
          /\ e.source = sim.results[i].scenario.modifications[1].node_id

\* C29: whenever the mutated clone of a tested scenario has a contradiction of
\* severity 0.7 or more, the FII of the scenario is at least 0.9 and the
\* scenario does not survive; an assumption-violated scenario for an
\* Assumption with an outgoing Assumes edge never survives.
C29_SevereContradictionCollapses ==
    \A i \in 1..Len(sim.results) :
        /\ Severe(i) => (RGe(sim.results[i].fii_after, SurvivalThreshold) /\ ~sim.results[i].survived)
        /\ ViolatesAssumed(i) => (Severe(i) /\ ~sim.results[i].survived)

\* a clone whose worst contradiction has severity 0.7 exactly collapsed on its
\* FII, and a violated Assumption that something assumed collapsed as well
C29_Witness ==
    /\ \E i \in 1..Len(sim.results) :
          /\ Severe(i)
          /\ \A sev \in CloneSeverities(i) : RLe(sev, SevereContradiction)
          /\ get_fatal_violations(sim.results[i].new_violations) = <<>>
          /\ ~sim.results[i].survived
    /\ \E i \in 1..Len(sim.results) : ViolatesAssumed(i) /\ ~sim.results[i].survived

\* a scenario whose clone holds no severe contradiction survived
MildSurvived ==
    \E i \in 1..Len(sim.results) : ~Severe(i) /\ sim.results[i].survived

----------------------------------------------------------------------------
(* Engine.run *)

MaxRules == 3

NoFinding == [k \in {} |-> 0]

\* a rule, by what its evaluate does: it returns a finding or nothing, or it
\* raises an Exception; a rule may lack the attribute id
Rule(id, raises, returns) == [id |-> id, raises |-> raises, returns |-> returns]
Anonymous(raises, returns) == [raises |-> raises, returns |-> returns]

RuleId(i) == "R" \o ToString(i)

RulesAt(i) ==
    {Rule(RuleId(i), FALSE, f) : f \in {NoFinding, Finding("CRITICAL"), Finding("LOW")}}
    \cup {Rule(RuleId(i), TRUE, NoFinding), Anonymous(TRUE, NoFinding)}

RuleSeqs ==
    UNION { {rules \in [1..k -> UNION {RulesAt(i) : i \in 1..k}] : \A i \in 1..k : rules[i] \in RulesAt(i)} :
            k \in 0..MaxRules }

\* the finding of the except branch of run
engine_error(rule) ==
    [id |-> "ENGINE-ERROR", severity |-> "CRITICAL",
     rule |-> IF "id" \in DOMAIN rule THEN rule.id ELSE "str(rule)",
     message |-> <<"RULE EXECUTION FAILED: ", "e">>]

\* the loop of run over self.rules from the i-th rule on; stop says whether
\* an exception ends the loop
RECURSIVE RunRules(_, _, _, _, _)
RunRules(result, evaluated, rules, i, stop) ==
    IF i > Len(rules) THEN [result |-> result, evaluated |-> evaluated]
    ELSE LET rule == rules[i]
             found == IF rule.raises THEN <<engine_error(rule)>>
                      ELSE IF rule.returns # NoFinding THEN <<rule.returns>>
                      ELSE <<>>
             after == [result EXCEPT !.findings = @ \o found]
         IN  IF rule.raises /\ stop
             THEN [result |-> after, evaluated |-> Append(evaluated, i)]
             ELSE RunRules(after, Append(evaluated, i), rules, i + 1, stop)

\* a run that gives up at the first rule that raises
run_abort_on_error(rules) ==
    LET done == RunRules(NoResult, <<>>, rules, 1, TRUE)
    IN  [result |-> finalize(done.result, Len(rules)), evaluated |-> done.evaluated]

\* Engine.run: the AnalysisResult returned and the rules evaluated, in order
run(rules) ==
    LET done == RunRules(NoResult, <<>>, rules, 1, FALSE)
    IN  [result |-> finalize(done.result, Len(rules)), evaluated |-> done.evaluated]

\* engine.run(data, target) of an engine with the rules given
Run(rules) ==
    /\ analysis' = run(rules).result
    /\ op' = Op("run", "none", [rules |-> rules, evaluated |-> run(rules).evaluated])
    /\ UNCHANGED <<objs, base, context, scenarios, sim, violations, fii, cf_results, paths, verdict, calls>>

NextRun == \E rules \in RuleSeqs : Run(rules)

SpecRun == InitEmpty /\ [][NextRun]_vars

Ran == op.name = "run"

Raising(rules) == {i \in 1..Len(rules) : rules[i].raises}

\* the positions in the findings of the findings of the i-th rule
FindingsOf(rules, i) ==
    LET before == Cardinality({j \in 1..(i - 1) : rules[j].raises \/ rules[j].returns # NoFinding})
    IN  IF rules[i].raises \/ rules[i].returns # NoFinding THEN {before + 1} ELSE {}

\* C30: a rule whose evaluate raises does not abort the run: exactly one
\* CRITICAL finding with id ENGINE-ERROR is recorded for it, every rule is
\* still evaluated in list order, the findings keep rule order, and the final
\* verdict is FAILED with risk CRITICAL.
C30_RaisingRuleIsRecorded ==
    Ran =>
        LET rules == op.arg.rules
        IN  /\ op.arg.evaluated = [i \in 1..Len(rules) |-> i]
            /\ Len(analysis.findings) = Cardinality(UNION {FindingsOf(rules, i) : i \in 1..Len(rules)})
            /\ \A i \in 1..Len(rules) : \A n \in FindingsOf(rules, i) :
                  IF rules[i].raises
                  THEN /\ analysis.findings[n].id = "ENGINE-ERROR"
                       /\ analysis.findings[n].severity = "CRITICAL"
                       /\ "id" \in DOMAIN rules[i] => analysis.findings[n].rule = rules[i].id
                  ELSE analysis.findings[n] = rules[i].returns
            /\ Raising(rules) # {} => (analysis.verdict = "FAILED" /\ analysis.risk = "CRITICAL")

\* the first rule raised, a later one returned a finding, and both are recorded
C30_Witness ==
    /\ Ran
    /\ Len(op.arg.rules) = MaxRules
    /\ op.arg.rules[1].raises
    /\ ~op.arg.rules[MaxRules].raises
    /\ Len(analysis.findings) >= 2
    /\ analysis.findings[1].id = "ENGINE-ERROR"
    /\ analysis.findings[Len(analysis.findings)] = Finding("LOW")
    /\ analysis.verdict = "FAILED"

====
